---- MODULE Spec2Model ----
(***************************************************************************)
(* Verification model of the GaleMind dispatch and batching engine:        *)
(*   - CircularBuffer          (foundation/src/model/circular_buffer.rs)   *)
(*   - ModelContext and EventDrivenModelManager                            *)
(*                             (foundation/src/model/scheduler.rs)         *)
(* InferenceBuffer, the buffer event channel and the InferenceRuntime      *)
(* trait are used by scheduler.rs but their sources are not part of the    *)
(* tree; they are modelled from sections 4.2, 4.3 and 4.4 of the           *)
(* specification.                                                          *)
(*   - ModelId and ModelDiscoveryService                                   *)
(*                    (foundation/src/model/model_discovery_service.rs)    *)
(*   - the gRPC front-end's intake         (grpc_server/src/lib.rs)        *)
(*   - MLFlowClient                  (foundation/src/api/mlflow_client.rs) *)
(*   - the streaming RPC unified_infer_stream  (grpc_server/src/lib.rs)    *)
(* Sequences are 1-based: slot j of a Rust Vec is element j+1 here.        *)
(* A string is the sequence of its characters.                             *)
(***************************************************************************)
EXTENDS Integers, Sequences, FiniteSets, TLC

(***************************************************************************)
(* Bounds of the model.                                                    *)
(***************************************************************************)
MaxCap == 2
MaxRingCap == 3
MaxPushes == 7
NumItems == 2
MaxCallers == 4
NumWorkers == 2
ChannelCap == 2
MaxPathLen == 4
MaxSources == 3
MaxFsChanges == 1
MaxRequests == 3
MaxCalls == 2
MaxDiscRequests == 1
MaxSourcesAgain == 2
MaxPages == 3
MaxFlushCallers == 3
MaxMessages == 5

Items == 1..NumItems
Callers == 1..MaxCallers
ModelIds == {"a", "b"}
Capacities == 2..MaxCap
Thresholds == {-1, 50, 100, 101}
DefaultBufferCapacity == 100
DefaultThresholdPercentage == 80

VARIABLES
    ring,                          \* a CircularBuffer on its own
    pushed,                        \* history: items pushed into `ring`
    models,                        \* EventDrivenModelManager.models
    handlerModels,                 \* the map the event handler task owns
    events,                        \* the buffer event channel
    default_buffer_capacity,
    default_threshold_percentage,
    pc,                            \* position of each process_inference call
    req,                           \* the request of each call
    result,                        \* what each call returned
    chan,                          \* the oneshot channel of each call
    flushes,                       \* history: batches handed to process_batch
    pushedSince,                   \* history: add_request calls since the last drain
    thresholdSince,                \* history: ThresholdReached emitted since the last drain
    config_result,                 \* what the last set_buffer_config returned
    lifecycle,                     \* "alive", "dropped" (manager dropped), "exited" (handler task ended)
    executed,                      \* history: how often each request was passed to a runtime
    inflight,                      \* the runtime call the event handler is suspended in
    idIn,                          \* the argument given to a ModelId constructor
    idFn,                          \* the constructor applied to it, "none" before
    idOut,                         \* what the constructor returned
    registry,                      \* ModelDiscoveryService.models
    models_buffer_capacity,        \* ModelDiscoveryService.models_buffer_capacity
    sources,                       \* discover_models: its argument
    pos,                           \* discover_models: the source the loop is at
    phase,                         \* discover_models: "idle", "loop", "dir_loaded", "done"
    discovered_models,             \* discover_models: the local list
    returned,                      \* discover_models: what the call returned
    dir_state,                     \* the models directory: "ok", "unreadable", "absent"
    dir_entries,                   \* the entries of the models directory
    fs_changes,                    \* history: number of changes to the directory
    calls,                         \* history: number of discover_models calls made
    answers,                       \* history: what the sources of this call answered
    previous_call,                 \* history: the registered ids and the answers of the call before
    client_fn,                     \* the MLFlowClient method called, "none" before
    client_pc,                     \* the call: "idle", "paging" (in get_all_pages' loop), "done"
    http_response,                 \* get_model: the response it received
    next_page_token,               \* get_all_pages: the local next_page_token
    all_items,                     \* get_all_pages: the local all_items
    requests_sent,                 \* history: the url of each request get_all_pages sent
    pages,                         \* history: the response to each of them
    client_result,                 \* what the method returned
    accepted,                      \* history: requests the front-end accepted
    stream_sessions,               \* unified_infer_stream: the task's stream_sessions
    stream_received,               \* history: the messages the task read from the stream
    stream_out,                    \* history: the responses the task sent on tx
    stream_delivered,              \* how many of them the client has taken from rx
    stream_pc,                     \* the task: "open" (in its loop), "ended"
    stream_rx                      \* the client's receiver: "open", "dropped"

ringVars == <<ring, pushed>>

sysVars == <<models, handlerModels, events, default_buffer_capacity,
             default_threshold_percentage, pc, req, result,
             chan, flushes, pushedSince, thresholdSince, config_result,
             lifecycle, executed, inflight>>

idVars == <<idIn, idFn, idOut>>

callVars == <<calls, answers, previous_call>>

discVars == <<registry, models_buffer_capacity, sources, pos, phase,
              discovered_models, returned, dir_state, dir_entries, fs_changes,
              accepted, callVars>>

clientVars == <<client_fn, client_pc, http_response, next_page_token,
                all_items, requests_sent, pages, client_result>>

streamVars == <<stream_sessions, stream_received, stream_out,
                stream_delivered, stream_pc, stream_rx>>

\* the variables outside the dispatcher
otherVars == <<ring, pushed, idVars, discVars, clientVars, streamVars>>

vars == <<ring, pushed, models, handlerModels, events, default_buffer_capacity,
          default_threshold_percentage, pc, req, result,
          chan, flushes, pushedSince, thresholdSince, config_result, lifecycle,
          executed, inflight, idIn, idFn, idOut, registry, models_buffer_capacity, sources, pos,
          phase, discovered_models, returned, dir_state, dir_entries,
          fs_changes, accepted, calls, answers, previous_call,
          client_fn, client_pc, http_response, next_page_token, all_items,
          requests_sent, pages, client_result, stream_sessions,
          stream_received, stream_out, stream_delivered, stream_pc, stream_rx>>

Min(a, b) == IF a < b THEN a ELSE b

Range(s) == {s[i] : i \in DOMAIN s}

(***************************************************************************)
(* CircularBuffer<T>: buffer (Vec<T>), capacity, index (write cursor).     *)
(***************************************************************************)
CircularBuffer_new(capacity) ==
    [buffer |-> <<>>, capacity |-> capacity, index |-> 0]

\* push that never overwrites
CircularBuffer_push_unbounded(self, item) ==
    [self EXCEPT !.buffer = Append(self.buffer, item),
                 !.index = (self.index + 1) % self.capacity]

\* push that overwrites slot 0 instead of the slot under the cursor
CircularBuffer_push_slot0(self, item) ==
    [self EXCEPT
        !.buffer = IF Len(self.buffer) < self.capacity
                   THEN Append(self.buffer, item)
                   ELSE [self.buffer EXCEPT ![1] = item],
        !.index = (self.index + 1) % self.capacity]

CircularBuffer_push(self, item) ==
    [self EXCEPT
        !.buffer = IF Len(self.buffer) < self.capacity
                   THEN Append(self.buffer, item)
                   ELSE [self.buffer EXCEPT ![self.index + 1] = item],
        !.index = (self.index + 1) % self.capacity]

CircularBuffer_items(self) == self.buffer

CircularBuffer_capacity(self) == self.capacity

CircularBuffer_len(self) == Len(self.buffer)

CircularBuffer_is_empty(self) == self.buffer = <<>>

CircularBuffer_is_full(self) == Len(self.buffer) = self.capacity

(***************************************************************************)
(* ModelId.  Option<T> is a record: None, or Some(x) carrying x.           *)
(***************************************************************************)
Chars == {"/", ".", "a", "b"}
Strings == UNION {[1..n -> Chars] : n \in 0..MaxPathLen}

None == [some |-> FALSE, v |-> <<>>]
Some(x) == [some |-> TRUE, v |-> x]

last(seq) == seq[Len(seq)]

\* str::split('/'): the pieces between the separators, the empty ones too
RECURSIVE split(_)
split(s) ==
    IF \A i \in DOMAIN s : s[i] # "/" THEN <<s>>
    ELSE LET k == CHOOSE i \in DOMAIN s :
                      s[i] = "/" /\ \A j \in 1..(i - 1) : s[j] # "/"
         IN <<SubSeq(s, 1, k - 1)>> \o split(SubSeq(s, k + 1, Len(s)))

\* Path::components without the root and a leading "." (file_name looks at
\* the last component only): repeated and trailing separators and "."
\* pieces are skipped.
IsNamePiece(piece) == piece # <<>> /\ piece # <<".">>

components(path) == SelectSeq(split(path), IsNamePiece)

\* Path::file_name: the last component unless there is none or it is ".."
file_name(path) ==
    LET c == components(path)
    IN IF c = <<>> \/ last(c) = <<".", ".">> THEN None ELSE Some(last(c))

\* Path::extension: what follows the last dot of file_name, unless there is
\* no dot or nothing before it
extension(path) ==
    LET f == file_name(path)
        dots == {i \in DOMAIN f.v : f.v[i] = "."}
    IN IF ~f.some \/ dots = {} THEN None
       ELSE LET k == CHOOSE i \in dots : \A j \in dots : j <= i
            IN IF k = 1 THEN None ELSE Some(SubSeq(f.v, k + 1, Len(f.v)))

from_path(path) ==
    IF ~file_name(path).some \/ ~extension(path).some
    THEN None
    ELSE Some(file_name(path).v)

from_string(id) == id

\* from_url that skips the empty pieces at the end
from_url_last_named_piece(url) ==
    LET pieces == split(url)
        named == {i \in DOMAIN pieces : pieces[i] # <<>>}
    IN IF named = {} THEN None
       ELSE Some(pieces[CHOOSE i \in named : \A j \in named : j <= i])

from_url(url) ==
    LET piece == last(split(url))
    IN IF piece # <<>> THEN Some(piece) ELSE None

(***************************************************************************)
(* MLFlowClient.  A response is what send() and the reads of the response  *)
(* gave: sent (send() returned Ok), status, text (the body, or None when   *)
(* reading it failed) and what the body decodes to (decodes, model, items, *)
(* next_page_token).                                                       *)
(***************************************************************************)
NOT_FOUND == 404

HttpStatuses == {200, 204, NOT_FOUND, 500}

Bodies == {<<>>, <<"a">>}

Tokens == {<<"a">>, <<"b">>}

\* StatusCode::is_success
is_success(status) == 200 <= status /\ status < 300

\* Result<String>::unwrap_or_default
unwrap_or_default(text) == IF text.some THEN text.v ELSE <<>>

NoError == [kind |-> "none", status |-> 0, body |-> <<>>]

\* the error of a `?` on send(), text() or a decode
Propagated(kind) == [kind |-> kind, status |-> 0, body |-> <<>>]

\* anyhow!("MLFlow API request failed with status: {}, body: {}", ..)
RequestFailed(status, text) ==
    [kind |-> "status", status |-> status, body |-> unwrap_or_default(text)]

ClientOk(model, items) ==
    [ok |-> TRUE, model |-> model, items |-> items, error |-> NoError]

ClientErr(error) ==
    [ok |-> FALSE, model |-> None, items |-> <<>>, error |-> error]

NoClientResult ==
    [ok |-> FALSE, model |-> None, items |-> <<>>, error |-> NoError]

GetModelHttpResponses ==
    [sent : BOOLEAN, status : HttpStatuses, text : {None} \cup {Some(b) : b \in Bodies},
     decodes : BOOLEAN, model : {<<"a">>, <<"b">>}]

\* a get_model that takes every non-success status for a failure
MLFlowClient_get_model_no_404(response) ==
    IF ~response.sent THEN ClientErr(Propagated("transport"))
    ELSE IF is_success(response.status)
    THEN IF response.decodes
         THEN ClientOk(Some(response.model), <<>>)
         ELSE ClientErr(Propagated("decode"))
    ELSE ClientErr(RequestFailed(response.status, response.text))

\* MLFlowClient::get_model
MLFlowClient_get_model(response) ==
    IF ~response.sent THEN ClientErr(Propagated("transport"))
    ELSE IF is_success(response.status)
    THEN IF response.decodes
         THEN ClientOk(Some(response.model), <<>>)
         ELSE ClientErr(Propagated("decode"))
    ELSE IF response.status = NOT_FOUND
    THEN ClientOk(None, <<>>)
    ELSE ClientErr(RequestFailed(response.status, response.text))

\* list_models' endpoint, a piece of text the client never looks into
ListModelsEndpoint == <<"registered-models/list?max_results=100">>

PageItems == {<<>>, <<<<"a">>>>, <<<<"b">>, <<"a">>>>}

Page(sent, status, text, decodes, items, token) ==
    [sent |-> sent, status |-> status, text |-> text, decodes |-> decodes,
     items |-> items, next_page_token |-> token]

\* the pages list_models' closure decodes, with or without a token
GoodPages ==
    {Page(TRUE, 200, Some(<<"a">>), TRUE, items, token) :
        items \in PageItems, token \in {None} \cup {Some(t) : t \in Tokens}}

\* the responses that end the call: send() failed, a non-success status,
\* a body that cannot be read, a body that does not decode
BadPages ==
    {Page(FALSE, 0, None, FALSE, <<>>, None),
     Page(TRUE, 500, Some(<<"a">>), TRUE, <<<<"a">>>>, Some(<<"a">>)),
     Page(TRUE, NOT_FOUND, None, FALSE, <<>>, None),
     Page(TRUE, 200, None, FALSE, <<>>, None),
     Page(TRUE, 200, Some(<<"a">>), FALSE, <<>>, None)}

PageResponses == GoodPages \cup BadPages

\* the url of get_all_pages' next request
page_url(endpoint, token) ==
    IF token.some THEN endpoint \o <<"&page_token=">> \o token.v
    ELSE endpoint

Continue(items, token) ==
    [done |-> FALSE, all_items |-> items, next_page_token |-> token,
     result |-> NoClientResult]

Return(outcome) ==
    [done |-> TRUE, all_items |-> <<>>, next_page_token |-> None,
     result |-> outcome]

\* a loop body that keeps the first token it was given
get_all_pages_first_token(items, token, page) ==
    IF ~page.sent THEN Return(ClientErr(Propagated("transport")))
    ELSE IF ~is_success(page.status)
    THEN Return(ClientErr(RequestFailed(page.status, page.text)))
    ELSE IF ~page.text.some THEN Return(ClientErr(Propagated("body")))
    ELSE IF ~page.decodes THEN Return(ClientErr(Propagated("decode")))
    ELSE IF page.next_page_token.some
    THEN Continue(items \o page.items,
                  IF token.some THEN token ELSE page.next_page_token)
    ELSE Return(ClientOk(None, items \o page.items))

\* MLFlowClient::get_all_pages, one turn of its loop after the response to
\* the request arrived
get_all_pages(items, token, page) ==
    IF ~page.sent THEN Return(ClientErr(Propagated("transport")))
    ELSE IF ~is_success(page.status)
    THEN Return(ClientErr(RequestFailed(page.status, page.text)))
    ELSE IF ~page.text.some THEN Return(ClientErr(Propagated("body")))
    ELSE IF ~page.decodes THEN Return(ClientErr(Propagated("decode")))
    ELSE IF page.next_page_token.some
    THEN Continue(items \o page.items, page.next_page_token)
    ELSE Return(ClientOk(None, items \o page.items))

NoHttpResponse ==
    [sent |-> FALSE, status |-> 0, text |-> None, decodes |-> FALSE,
     model |-> <<>>]

\* the task of unified_infer_stream as it enters its loop
IdleStream ==
    /\ stream_sessions = <<>>
    /\ stream_received = <<>>
    /\ stream_out = <<>>
    /\ stream_delivered = 0
    /\ stream_pc = "open"
    /\ stream_rx = "open"

IdleClient ==
    /\ client_fn = "none"
    /\ client_pc = "idle"
    /\ http_response = NoHttpResponse
    /\ next_page_token = None
    /\ all_items = <<>>
    /\ requests_sent = <<>>
    /\ pages = <<>>
    /\ client_result = NoClientResult

IdleId == idIn = <<>> /\ idFn = "none" /\ idOut = None

(***************************************************************************)
(* Requests, responses and the runtime.  A request is identified by the    *)
(* caller-supplied id; the runtime answers a request with the response     *)
(* that carries the request's id, and a batch with the aligned sequence    *)
(* of such responses.                                                      *)
(***************************************************************************)
NoRequest == [model_name |-> "", id |-> 0]

Request(m, c) == [model_name |-> m, id |-> c]

NoResponse == [kind |-> "none", request_id |-> 0]

ModelNotFound == [kind |-> "ModelNotFound", request_id |-> 0]

process_single(request) == [kind |-> "ok", request_id |-> request.id]

process_batch(requests) ==
    [i \in 1..Len(requests) |-> process_single(requests[i])]

\* What a runtime returns from process_batch: the aligned responses, or, when
\* it breaks its contract, a shorter list.
Answers == {"aligned", "short"}

runtime_process_batch(requests, answer) ==
    IF answer = "short" /\ requests # <<>>
    THEN SubSeq(process_batch(requests), 1, Len(requests) - 1)
    ELSE process_batch(requests)

PendingInferenceRequest(request, tx) == [request |-> request, response_tx |-> tx]

(***************************************************************************)
(* InferenceBuffer: a ring with a threshold and rising-edge detection.     *)
(* push and drain_contents return the new buffer together with what they   *)
(* produce (the events emitted, the drained requests).                     *)
(***************************************************************************)
ThresholdReached(model_id, size, capacity) ==
    [kind |-> "ThresholdReached", model_id |-> model_id,
     current_size |-> size, capacity |-> capacity, buffer_contents |-> <<>>]

BufferFull(model_id, contents, capacity) ==
    [kind |-> "BufferFull", model_id |-> model_id,
     current_size |-> Len(contents), capacity |-> capacity,
     buffer_contents |-> contents]

InferenceBuffer_new(capacity, model_id, threshold) ==
    [ring |-> CircularBuffer_new(capacity), model_id |-> model_id,
     threshold |-> threshold, was_above_threshold |-> FALSE]

InferenceBuffer_len(self) == CircularBuffer_len(self.ring)

InferenceBuffer_push(self, request) ==
    LET r == CircularBuffer_push(self.ring, request)
        len == CircularBuffer_len(r)
        cap == CircularBuffer_capacity(r)
        \* fill >= threshold, both as percentages of the capacity
        above == 100 * len >= self.threshold * cap
        e1 == IF above /\ ~self.was_above_threshold
              THEN <<ThresholdReached(self.model_id, len, cap)>>
              ELSE <<>>
        e2 == IF CircularBuffer_len(self.ring) < cap /\ len = cap
              THEN <<BufferFull(self.model_id, CircularBuffer_items(r), cap)>>
              ELSE <<>>
    IN [buffer |-> [self EXCEPT !.ring = r, !.was_above_threshold = above],
        emitted |-> e1 \o e2]

InferenceBuffer_drain_contents(self) ==
    [buffer |-> [self EXCEPT !.ring = CircularBuffer_new(self.ring.capacity),
                             !.was_above_threshold = FALSE],
     contents |-> CircularBuffer_items(self.ring)]

(***************************************************************************)
(* ModelContext: buffer, runtime, pending_requests.                        *)
(***************************************************************************)
ModelContext_new(runtime, buffer_capacity, threshold_percentage) ==
    [buffer |-> InferenceBuffer_new(buffer_capacity, runtime, threshold_percentage),
     runtime |-> runtime,
     pending_requests |-> <<>>]

\* add_request that keeps no promise for a request that overwrites another
add_request_full_unrecorded(self, pending_request) ==
    LET p == InferenceBuffer_push(self.buffer, pending_request.request)
    IN [ctx |-> [self EXCEPT !.buffer = p.buffer,
                             !.pending_requests =
                                 IF CircularBuffer_is_full(self.buffer.ring)
                                 THEN self.pending_requests
                                 ELSE Append(self.pending_requests,
                                             pending_request)],
        emitted |-> p.emitted]

add_request(self, pending_request) ==
    LET p == InferenceBuffer_push(self.buffer, pending_request.request)
    IN [ctx |-> [self EXCEPT !.buffer = p.buffer,
                             !.pending_requests = Append(self.pending_requests,
                                                         pending_request)],
        emitted |-> p.emitted]

get_buffer_info(self) ==
    [len |-> InferenceBuffer_len(self.buffer),
     capacity |-> CircularBuffer_capacity(self.buffer.ring)]

\* drain that empties the ring but keeps the threshold flag
drain_buffer_contents_keeps_flag(self) ==
    LET d == InferenceBuffer_drain_contents(self.buffer)
    IN [ctx |-> [self EXCEPT !.buffer =
                    [d.buffer EXCEPT !.was_above_threshold =
                                         self.buffer.was_above_threshold]],
        contents |-> d.contents]

\* drain that moves the requests out and leaves the write cursor where it was
drain_buffer_contents_keeps_index(self) ==
    LET d == InferenceBuffer_drain_contents(self.buffer)
    IN [ctx |-> [self EXCEPT !.buffer =
                    [d.buffer EXCEPT !.ring.index = self.buffer.ring.index]],
        contents |-> d.contents]

drain_buffer_contents(self) ==
    LET d == InferenceBuffer_drain_contents(self.buffer)
    IN [ctx |-> [self EXCEPT !.buffer = d.buffer], contents |-> d.contents]

take_pending_requests(self) ==
    [ctx |-> [self EXCEPT !.pending_requests = <<>>],
     pending |-> self.pending_requests]

(***************************************************************************)
(* Oneshot channels.  state: "none" (not created), "open" (both halves     *)
(* alive, no value), "value" (a response was sent), "closed" (the sender   *)
(* was dropped without a value), "rx_dropped" (the receiver was dropped).  *)
(***************************************************************************)
oneshot_channel == [state |-> "open", value |-> NoResponse]

oneshot_send(ch, response) ==
    IF ch.state = "open" THEN [state |-> "value", value |-> response] ELSE ch

oneshot_drop_tx(ch) ==
    IF ch.state = "open" THEN [state |-> "closed", value |-> NoResponse] ELSE ch

oneshot_drop_rx(ch) == [state |-> "rx_dropped", value |-> ch.value]

\* sends that stop at the first send that fails
Deliver_until_failure(ch, sent, dropped) ==
    [c \in Callers |->
        IF \E i \in DOMAIN sent :
              sent[i].tx = c /\ \A j \in 1..i : ch[sent[j].tx].state = "open"
        THEN oneshot_send(ch[c],
                 sent[CHOOSE i \in DOMAIN sent : sent[i].tx = c].response)
        ELSE IF c \in dropped \/ \E i \in DOMAIN sent : sent[i].tx = c
        THEN oneshot_drop_tx(ch[c]) ELSE ch[c]]

\* The channels after the sends in `sent` (a sequence of [tx, response]) and
\* after the senders in `dropped` went out of scope without a send.
Deliver(ch, sent, dropped) ==
    [c \in Callers |->
        IF \E i \in DOMAIN sent : sent[i].tx = c
        THEN oneshot_send(ch[c],
                 sent[CHOOSE i \in DOMAIN sent : sent[i].tx = c].response)
        ELSE IF c \in dropped THEN oneshot_drop_tx(ch[c]) ELSE ch[c]]

(***************************************************************************)
(* The buffer event channel: bounded, producers drop on overflow.          *)
(***************************************************************************)
RECURSIVE emit_all(_, _)
emit_all(queue, emitted) ==
    IF emitted = <<>> THEN queue
    ELSE emit_all(IF Len(queue) < ChannelCap
                  THEN Append(queue, Head(emitted))
                  ELSE queue,
                  Tail(emitted))

(***************************************************************************)
(* EventDrivenModelManager: the flush path.                                *)
(***************************************************************************)
Senders(pending) == {pending[i].response_tx : i \in DOMAIN pending}

NoEffect(map) ==
    [models |-> map, sent |-> <<>>, dropped |-> {}, flushes |-> {},
     drained |-> {}, batches |-> <<>>]

\* the requests of a call of process_batch, none when there is no call
Batch(requests) == IF requests # <<>> THEN <<requests>> ELSE <<>>

\* `count` after the requests of `batches` were passed to a runtime
Executions(count, batches) ==
    [c \in Callers |->
        count[c] + Cardinality(UNION {{<<i, j>> : j \in {k \in DOMAIN batches[i] :
                                                          batches[i][k].id = c}} :
                                      i \in DOMAIN batches})]

NoInflight ==
    [active |-> FALSE, kind |-> "none", model_id |-> "", requests |-> <<>>,
     pending |-> <<>>, guard |-> "none"]

process_batch_with_responses(requests, pending_requests, runtime, answer) ==
    LET responses == runtime_process_batch(requests, answer)
        n == Min(Len(pending_requests), Len(responses))
    IN [sent |-> [i \in 1..n |-> [tx |-> pending_requests[i].response_tx,
                                  response |-> responses[i]]],
        dropped |-> {pending_requests[i].response_tx :
                        i \in (n + 1)..Len(pending_requests)},
        flushes |-> {[model_id |-> runtime, requests |-> requests,
                      pending |-> pending_requests, responses |-> responses]}]

trigger_offloading(model_id, model_context, answer) ==
    LET d == drain_buffer_contents(model_context)
        t == take_pending_requests(d.ctx)
        b == IF d.contents # <<>>
             THEN process_batch_with_responses(d.contents, t.pending,
                                               model_context.runtime, answer)
             ELSE [sent |-> <<>>, dropped |-> Senders(t.pending), flushes |-> {}]
    IN [ctx |-> t.ctx, sent |-> b.sent, dropped |-> b.dropped,
        flushes |-> b.flushes, batches |-> Batch(d.contents)]

\* process_buffer_contents runs the batch and discards the responses.
process_buffer_contents(buffer_contents, map) ==
    [NoEffect(map) EXCEPT !.batches = Batch(buffer_contents)]

\* a handler that flushes, besides the model of the event, every other
\* model of the map
handle_buffer_event_every_model(event, map, answer) ==
    IF event.kind = "ThresholdReached" /\ event.model_id \in DOMAIN map
    THEN LET t == trigger_offloading(event.model_id, map[event.model_id], answer)
         IN [models |-> [m \in DOMAIN map |->
                            IF m = event.model_id THEN t.ctx
                            ELSE trigger_offloading(m, map[m], answer).ctx],
             sent |-> t.sent, dropped |-> t.dropped, flushes |-> t.flushes,
             drained |-> {event.model_id}, batches |-> t.batches]
    ELSE IF event.kind = "BufferFull" /\ event.model_id \in DOMAIN map
    THEN process_buffer_contents(event.buffer_contents, map)
    ELSE NoEffect(map)

\* a handler that runs the snapshot of BufferFull for any model id
handle_buffer_event_any_model(event, map, answer) ==
    IF event.kind = "ThresholdReached" /\ event.model_id \in DOMAIN map
    THEN LET t == trigger_offloading(event.model_id, map[event.model_id], answer)
         IN [models |-> [map EXCEPT ![event.model_id] = t.ctx],
             sent |-> t.sent, dropped |-> t.dropped, flushes |-> t.flushes,
             drained |-> {event.model_id}, batches |-> t.batches]
    ELSE IF event.kind = "BufferFull"
    THEN process_buffer_contents(event.buffer_contents, map)
    ELSE NoEffect(map)

handle_buffer_event(event, map, answer) ==
    IF event.kind = "ThresholdReached" /\ event.model_id \in DOMAIN map
    THEN LET t == trigger_offloading(event.model_id, map[event.model_id], answer)
         IN [models |-> [map EXCEPT ![event.model_id] = t.ctx],
             sent |-> t.sent, dropped |-> t.dropped, flushes |-> t.flushes,
             drained |-> {event.model_id}, batches |-> t.batches]
    ELSE IF event.kind = "BufferFull" /\ event.model_id \in DOMAIN map
    THEN process_buffer_contents(event.buffer_contents, map)
    ELSE NoEffect(map)

(***************************************************************************)
(* handle_buffer_event in time.  The handler takes the entry of the model  *)
(* with get_mut and awaits the runtime inside the scope of that guard:     *)
(* begin_buffer_event is the handler up to the await, inflight the call it *)
(* is suspended in, complete_buffer_event the rest once the runtime has    *)
(* answered; the guard is dropped when the arm's block ends.               *)
(***************************************************************************)
RuntimeCall(kind, model_id, requests, pending) ==
    [active |-> TRUE, kind |-> kind, model_id |-> model_id,
     requests |-> requests, pending |-> pending, guard |-> "exclusive"]

begin_buffer_event(event, map) ==
    IF event.kind = "ThresholdReached" /\ event.model_id \in DOMAIN map
    THEN LET d == drain_buffer_contents(map[event.model_id])
             t == take_pending_requests(d.ctx)
         IN [models |-> [map EXCEPT ![event.model_id] = t.ctx],
             call |-> IF d.contents # <<>>
                      THEN RuntimeCall("process_batch_with_responses",
                                       event.model_id, d.contents, t.pending)
                      ELSE NoInflight,
             dropped |-> IF d.contents # <<>> THEN {} ELSE Senders(t.pending),
             drained |-> {event.model_id}]
    ELSE IF event.kind = "BufferFull" /\ event.model_id \in DOMAIN map
    THEN [models |-> map,
          call |-> IF event.buffer_contents # <<>>
                   THEN RuntimeCall("process_buffer_contents", event.model_id,
                                    event.buffer_contents, <<>>)
                   ELSE NoInflight,
          dropped |-> {}, drained |-> {}]
    ELSE [models |-> map, call |-> NoInflight, dropped |-> {}, drained |-> {}]

complete_buffer_event(call, answer) ==
    IF call.kind = "process_batch_with_responses"
    THEN process_batch_with_responses(call.requests, call.pending,
                                      call.model_id, answer)
    ELSE [sent |-> <<>>, dropped |-> {}, flushes |-> {}]

\* the handler holds the guard of the entry of model m
HandlerGuard(m) ==
    inflight.active /\ inflight.model_id = m /\ inflight.guard = "exclusive"

(***************************************************************************)
(* ModelDiscoveryService: the registry of ring buffers keyed by ModelId,   *)
(* the sources of discover_models, the models directory and the answers    *)
(* of the MLFlow client.                                                   *)
(***************************************************************************)
ModelNames == {<<"a">>, <<"b">>}
RequestIds == {<<"a">>, <<"a", "a">>}

Id(id) == [kind |-> "Id", v |-> id, named |-> TRUE]
Url(url) == [kind |-> "Url", v |-> url, named |-> TRUE]
Path(path) == [kind |-> "Path", v |-> path, named |-> TRUE]
\* MLFlow { model_name }: Some(name), or None when `named` is FALSE
MLFlow(model_name) ==
    [kind |-> "MLFlow", v |-> model_name.v, named |-> model_name.some]

ModelsDir == <<"/", "b">>

SourceSet ==
    {Id(<<"a">>), Url(<<"a", "/", "b">>), Url(<<"b", "/">>),
     Path(<<"/", "a", ".", "b">>), Path(<<"/", "a">>), Path(ModelsDir),
     MLFlow(Some(<<"a">>)), MLFlow(None)}

SourceLists == UNION {[1..n -> SourceSet] : n \in 0..MaxSources}

\* the lists given to a discover_models that is called again
ShortSourceLists == UNION {[1..n -> SourceSet] : n \in 0..MaxSourcesAgain}

DirEntry(name, is_dir) == [name |-> name, is_dir |-> is_dir]

PossibleEntries ==
    {DirEntry(<<"a", ".", "a">>, TRUE), DirEntry(<<"b", ".", "a">>, TRUE),
     DirEntry(<<"b">>, TRUE), DirEntry(<<"a", ".", "b">>, FALSE)}

InitialEntries ==
    {DirEntry(<<"a", ".", "a">>, TRUE), DirEntry(<<"b">>, TRUE),
     DirEntry(<<"a", ".", "b">>, FALSE)}

\* the entries that come and go while the service runs
ChangingEntries ==
    {DirEntry(<<"a", ".", "a">>, TRUE), DirEntry(<<"b", ".", "a">>, TRUE)}

\* DirEntry::path
entry_path(dir, entry) == dir \o <<"/">> \o entry.name

\* the orders in which read_dir may yield the entries
Listings(entries) ==
    {l \in [1..Cardinality(entries) -> entries] : Range(l) = entries}

is_dir(path, state) == path = ModelsDir /\ state # "absent"

\* fs::read_dir: the listing, or an error
read_dir(path, state, listing) ==
    IF path = ModelsDir /\ state = "ok"
    THEN [ok |-> TRUE, entries |-> listing]
    ELSE [ok |-> FALSE, entries |-> <<>>]

\* the answers of the MLFlow server
MLFlowStatuses == {"success", "not_found", "failure"}
GetModelResponses == [status : MLFlowStatuses, name : ModelNames]
ListModelsResponses ==
    [status : {"success", "failure"},
     names : {<<>>, <<<<"a">>>>, <<<<"b">>, <<"a">>>>}]

\* MLFlowClient::get_model: Ok(Some(model)), Ok(None) or Err
get_model(response) ==
    IF response.status = "success"
    THEN [ok |-> TRUE, model |-> Some(response.name)]
    ELSE IF response.status = "not_found"
    THEN [ok |-> TRUE, model |-> None]
    ELSE [ok |-> FALSE, model |-> None]

\* MLFlowClient::list_models: Ok(models) or Err
list_models(response) ==
    IF response.status = "success"
    THEN [ok |-> TRUE, models |-> response.names]
    ELSE [ok |-> FALSE, models |-> <<>>]

ModelDiscoveryService_new(capacity) ==
    [models |-> <<>>, models_buffer_capacity |-> capacity]

\* a register_model that removes the entry it finds
ModelDiscoveryService_register_model_toggle(map, capacity, model_id) ==
    IF model_id \in DOMAIN map
    THEN [id \in DOMAIN map \ {model_id} |-> map[id]]
    ELSE (model_id :> CircularBuffer_new(capacity)) @@ map

\* a register_model that inserts: a new buffer replaces the entry it finds
ModelDiscoveryService_register_model_insert(map, capacity, model_id) ==
    (model_id :> CircularBuffer_new(capacity)) @@ map

\* entry(model_id).or_insert_with(new buffer)
ModelDiscoveryService_register_model(map, capacity, model_id) ==
    IF model_id \in DOMAIN map
    THEN map
    ELSE (model_id :> CircularBuffer_new(capacity)) @@ map

ModelDiscoveryService_add_request(map, capacity, model_id, request) ==
    LET entry == ModelDiscoveryService_register_model(map, capacity, model_id)
    IN [entry EXCEPT ![model_id] = CircularBuffer_push(@, request)]

get_models(map) == DOMAIN map

RECURSIVE register_all(_, _, _)
register_all(map, capacity, ids) ==
    IF ids = <<>> THEN map
    ELSE register_all(ModelDiscoveryService_register_model(map, capacity, Head(ids)),
                      capacity, Tail(ids))

\* a scan that takes the files as well as the directories
directory_ids_with_files(dir, listing) ==
    LET keep(entry) == from_path(entry_path(dir, entry)).some
        kept == SelectSeq(listing, keep)
    IN [i \in DOMAIN kept |-> from_path(entry_path(dir, kept[i])).v]

\* the ids of the entries that are directories and whose path gives an id,
\* in the order of the listing
RECURSIVE directory_ids(_, _)
directory_ids(dir, listing) ==
    IF listing = <<>> THEN <<>>
    ELSE LET id == from_path(entry_path(dir, Head(listing)))
         IN (IF Head(listing).is_dir /\ id.some THEN <<id.v>> ELSE <<>>)
            \o directory_ids(dir, Tail(listing))

load_models_from_dir(map, capacity, dir, state, listing) ==
    LET r == read_dir(dir, state, listing)
    IN IF r.ok
       THEN [ok |-> TRUE,
             models |-> register_all(map, capacity, directory_ids(dir, r.entries))]
       ELSE [ok |-> FALSE, models |-> map]

discover_from_directory(dir, state, listing) ==
    LET r == read_dir(dir, state, listing)
    IN IF r.ok
       THEN [ok |-> TRUE, models |-> directory_ids(dir, r.entries)]
       ELSE [ok |-> FALSE, models |-> <<>>]

\* what client.get_model(..).await / client.list_models().await gave
client_call(source, response) ==
    IF source.named
    THEN LET r == get_model(response)
         IN IF r.ok THEN ClientOk(r.model, <<>>) ELSE ClientErr(Propagated("registry"))
    ELSE LET r == list_models(response)
         IN IF r.ok THEN ClientOk(None, r.models) ELSE ClientErr(Propagated("registry"))

\* a discover_from_mlflow that registers the name it asked for, whatever
\* the registry answered
discover_from_mlflow_asked_name(map, capacity, source, response) ==
    IF source.named /\ get_model(response).ok
    THEN [ok |-> TRUE,
          models |-> ModelDiscoveryService_register_model(
                         map, capacity, from_string(source.v)),
          discovered |-> <<from_string(source.v)>>]
    ELSE LET r == list_models(response)
         IN IF source.named \/ ~r.ok
            THEN [ok |-> FALSE, models |-> map, discovered |-> <<>>]
            ELSE [ok |-> TRUE,
                  models |-> register_all(map, capacity, r.models),
                  discovered |-> r.models]

discover_from_mlflow(map, capacity, source, response) ==
    IF source.named
    THEN LET r == get_model(response)
         IN IF ~r.ok THEN [ok |-> FALSE, models |-> map, discovered |-> <<>>]
            ELSE IF r.model.some
            THEN [ok |-> TRUE,
                  models |-> ModelDiscoveryService_register_model(
                                 map, capacity, from_string(r.model.v)),
                  discovered |-> <<from_string(r.model.v)>>]
            ELSE [ok |-> TRUE, models |-> map, discovered |-> <<>>]
    ELSE LET r == list_models(response)
         IN IF ~r.ok THEN [ok |-> FALSE, models |-> map, discovered |-> <<>>]
            ELSE [ok |-> TRUE,
                  models |-> register_all(map, capacity, r.models),
                  discovered |-> r.models]

\* the id a Path (not a directory), Url or Id source gives
source_id(source) ==
    IF source.kind = "Path" THEN from_path(source.v)
    ELSE IF source.kind = "Url" THEN from_url(source.v)
    ELSE Some(from_string(source.v))

\* a loop body that registers the empty id for a source that gives none
register_and_push_empty(map, capacity, discovered, id) ==
    [models |-> ModelDiscoveryService_register_model(map, capacity, id.v),
     discovered |-> IF id.some THEN Append(discovered, id.v) ELSE discovered]

\* a loop body that puts the new id in front of the list
register_and_push_front(map, capacity, discovered, id) ==
    IF id.some
    THEN [models |-> ModelDiscoveryService_register_model(map, capacity, id.v),
          discovered |-> <<id.v>> \o discovered]
    ELSE [models |-> map, discovered |-> discovered]

\* if let Some(model_id) = ... { register_model(model_id); push(model_id) }
register_and_push(map, capacity, discovered, id) ==
    IF id.some
    THEN [models |-> ModelDiscoveryService_register_model(map, capacity, id.v),
          discovered |-> Append(discovered, id.v)]
    ELSE [models |-> map, discovered |-> discovered]

\* what a directory or registry source answered: an error, or the ids
Answer(ok, ids) == [ok |-> ok, ids |-> ids]

NoCall == [ids |-> {}, answers |-> <<>>]

NoReturn == [kind |-> "none", models |-> <<>>]
Ok(list) == [kind |-> "ok", models |-> list]
Err == [kind |-> "err", models |-> <<>>]

IdleDisc ==
    /\ registry = ModelDiscoveryService_new(MaxCap).models
    /\ models_buffer_capacity = ModelDiscoveryService_new(MaxCap).models_buffer_capacity
    /\ sources = <<>>
    /\ pos = 0
    /\ phase = "idle"
    /\ discovered_models = <<>>
    /\ returned = NoReturn
    /\ dir_state = "ok"
    /\ dir_entries = {}
    /\ fs_changes = 0
    /\ accepted = <<>>
    /\ calls = 0
    /\ answers = <<>>
    /\ previous_call = NoCall

(***************************************************************************)
(* EventDrivenModelManager: state after new().  The handler task is given  *)
(* models_ref, a map of its own; self.models is another, new map.          *)
(***************************************************************************)
InitSys ==
    /\ models = <<>>
    /\ handlerModels = <<>>
    /\ events = <<>>
    /\ default_buffer_capacity = DefaultBufferCapacity
    /\ default_threshold_percentage = DefaultThresholdPercentage
    /\ pc = [c \in Callers |-> "idle"]
    /\ req = [c \in Callers |-> NoRequest]
    /\ result = [c \in Callers |-> NoResponse]
    /\ chan = [c \in Callers |-> [state |-> "none", value |-> NoResponse]]
    /\ flushes = {}
    /\ pushedSince = [m \in ModelIds |-> 0]
    /\ thresholdSince = [m \in ModelIds |-> 0]
    /\ config_result = "none"
    /\ lifecycle = "alive"
    /\ executed = [c \in Callers |-> 0]
    /\ inflight = NoInflight

Init ==
    /\ InitSys
    /\ IdleClient
    /\ IdleStream
    /\ ring = CircularBuffer_new(1)
    /\ pushed = <<>>
    /\ IdleId
    /\ IdleDisc

(***************************************************************************)
(* Scheduling.  Calls are tasks polled by NumWorkers worker threads.  A    *)
(* task waiting for a map lock keeps its worker; a task suspended in an    *)
(* await does not, and needs a free worker to continue.  A call suspended  *)
(* in process_single holds the shared guard of its registry entry.         *)
(***************************************************************************)
FreeWorker == Cardinality({c \in Callers : pc[c] = "blocked"}) < NumWorkers

Readers(m) == {c \in Callers : pc[c] = "suspended" /\ req[c].model_name = m}

InFlight == {c \in Callers : pc[c] \in {"blocked", "suspended"}}

\* Calls are numbered in the order they are issued; the number is the
\* request id.
NextCall(c) == pc[c] = "idle" /\ \A d \in 1..(c - 1) : pc[d] # "idle"

(***************************************************************************)
(* register_model, set_buffer_config.  set_buffer_config takes &mut self:  *)
(* it runs while the manager is not yet shared with any caller.            *)
(***************************************************************************)
\* register_model that builds the context with the initial defaults
register_model_initial_defaults(map, runtime) ==
    (runtime :> ModelContext_new(runtime, DefaultBufferCapacity,
                                 DefaultThresholdPercentage)) @@ map

register_model(map, runtime) ==
    (runtime :> ModelContext_new(runtime, default_buffer_capacity,
                                 default_threshold_percentage)) @@ map

RegisterModel(m) ==
    /\ lifecycle = "alive"
    /\ Readers(m) = {}
    /\ ~HandlerGuard(m)
    /\ models' = register_model(models, m)
    /\ chan' = Deliver(chan, <<>>,
                       IF m \in DOMAIN models
                       THEN Senders(models[m].pending_requests) ELSE {})
    /\ pushedSince' = [pushedSince EXCEPT ![m] = 0]
    /\ thresholdSince' = [thresholdSince EXCEPT ![m] = 0]
    /\ UNCHANGED <<otherVars, inflight, executed, handlerModels, events, default_buffer_capacity,
                   default_threshold_percentage, pc, req, result,
                   flushes, config_result, lifecycle>>

\* set_buffer_config that stores the values before it validates them
set_buffer_config_early(capacity, threshold_percentage, old_capacity, old_threshold) ==
    [result |-> IF threshold_percentage < 0 \/ threshold_percentage > 100
                THEN "err" ELSE "ok",
     capacity |-> capacity, threshold |-> threshold_percentage]

set_buffer_config(capacity, threshold_percentage, old_capacity, old_threshold) ==
    IF threshold_percentage < 0 \/ threshold_percentage > 100
    THEN [result |-> "err", capacity |-> old_capacity, threshold |-> old_threshold]
    ELSE [result |-> "ok", capacity |-> capacity, threshold |-> threshold_percentage]

SetBufferConfig(capacity, threshold_percentage) ==
    /\ lifecycle = "alive"
    /\ \A c \in Callers : pc[c] = "idle"
    /\ LET r == set_buffer_config(capacity, threshold_percentage,
                                  default_buffer_capacity,
                                  default_threshold_percentage)
       IN /\ config_result' = r.result
          /\ default_buffer_capacity' = r.capacity
          /\ default_threshold_percentage' = r.threshold
    /\ UNCHANGED <<otherVars, inflight, executed, models, handlerModels, events, pc, req, result,
                   chan, flushes, pushedSince, thresholdSince, lifecycle>>

(***************************************************************************)
(* process_inference.  One call is one task; its steps are the polls of    *)
(* the task: up to the await of process_single, and after it.              *)
(***************************************************************************)
contains_key(map, model_id) == model_id \in DOMAIN map

\* an unknown model is registered on its first request
model_not_found_inserts(map, request) ==
    [models |-> (request.model_name :>
                    ModelContext_new(request.model_name, DefaultBufferCapacity,
                                     DefaultThresholdPercentage)) @@ map,
     response |-> ModelNotFound]

\* The early return for a model that is not registered.
model_not_found(map, request) == [models |-> map, response |-> ModelNotFound]

CountThreshold(emitted) ==
    Cardinality({i \in DOMAIN emitted : emitted[i].kind = "ThresholdReached"})

\* add_request under get_mut, then process_single under get: either the
\* runtime answers within the poll, or the call is suspended in the await.
IntakeAndCall(c, request, suspend) ==
    LET m == request.model_name
        a == add_request(models[m], PendingInferenceRequest(request, c))
    IN /\ models' = [models EXCEPT ![m] = a.ctx]
       /\ events' = emit_all(events, a.emitted)
       /\ pushedSince' = [pushedSince EXCEPT ![m] = @ + 1]
       /\ thresholdSince' = [thresholdSince EXCEPT
                                ![m] = @ + CountThreshold(a.emitted)]
       /\ executed' = Executions(executed, Batch(<<request>>))
       /\ IF suspend
          THEN /\ pc' = [pc EXCEPT ![c] = "suspended"]
               /\ chan' = [chan EXCEPT ![c] = oneshot_channel]
               /\ UNCHANGED result
          ELSE /\ pc' = [pc EXCEPT ![c] = "done"]
               /\ result' = [result EXCEPT ![c] = process_single(request)]
               /\ chan' = [chan EXCEPT ![c] = oneshot_drop_rx(oneshot_channel)]

ProcessInference(c, m) ==
    /\ lifecycle = "alive"
    /\ NextCall(c)
    /\ FreeWorker
    /\ req' = [req EXCEPT ![c] = Request(m, c)]
    /\ IF ~contains_key(models, m)
       THEN LET r == model_not_found(models, Request(m, c))
            IN /\ models' = r.models
               /\ result' = [result EXCEPT ![c] = r.response]
               /\ pc' = [pc EXCEPT ![c] = "done"]
               /\ UNCHANGED <<events, chan, pushedSince, thresholdSince,
                              executed>>
       ELSE IF Readers(m) # {}
       THEN \* get_mut waits for the shared guards to be released
            /\ pc' = [pc EXCEPT ![c] = "blocked"]
            /\ chan' = [chan EXCEPT ![c] = oneshot_channel]
            /\ UNCHANGED <<models, events, result, pushedSince, thresholdSince,
                           executed>>
       ELSE \E suspend \in BOOLEAN : IntakeAndCall(c, Request(m, c), suspend)
    /\ UNCHANGED <<otherVars, inflight, handlerModels, default_buffer_capacity,
                   default_threshold_percentage, flushes, config_result,
                   lifecycle>>

AcquireAfterBlock(c) ==
    /\ pc[c] = "blocked"
    /\ Readers(req[c].model_name) = {}
    /\ \E suspend \in BOOLEAN : IntakeAndCall(c, req[c], suspend)
    /\ UNCHANGED <<otherVars, inflight, handlerModels, default_buffer_capacity,
                   default_threshold_percentage, flushes, req, config_result,
                   lifecycle>>

ResumeSingle(c) ==
    /\ pc[c] = "suspended"
    /\ FreeWorker
    /\ pc' = [pc EXCEPT ![c] = "done"]
    /\ result' = [result EXCEPT ![c] = process_single(req[c])]
    /\ chan' = [chan EXCEPT ![c] = oneshot_drop_rx(chan[c])]
    /\ UNCHANGED <<otherVars, inflight, executed, models, handlerModels, events,
                   default_buffer_capacity, default_threshold_percentage,
                   req, flushes, pushedSince, thresholdSince, config_result,
                   lifecycle>>

get_model_stats(map) == [m \in DOMAIN map |-> get_buffer_info(map[m])]

(***************************************************************************)
(* The event handler task spawned by new(): it receives the events and     *)
(* handles each against the map it was given.                              *)
(***************************************************************************)
EventHandlerTask ==
    /\ lifecycle # "exited"
    /\ events # <<>>
    /\ FreeWorker
    /\ \E answer \in Answers :
          LET h == handle_buffer_event(Head(events), handlerModels, answer)
          IN /\ handlerModels' = h.models
             /\ chan' = Deliver(chan, h.sent, h.dropped)
             /\ flushes' = flushes \cup h.flushes
             /\ executed' = Executions(executed, h.batches)
    /\ events' = Tail(events)
    /\ UNCHANGED <<otherVars, inflight, models, default_buffer_capacity,
                   default_threshold_percentage, pc, req, result,
                   pushedSince, thresholdSince, config_result, lifecycle>>

(***************************************************************************)
(* Dropping the manager drops its fields: the event emitter and the map    *)
(* with its contexts, and with each context the emitter clone of its       *)
(* buffer and the senders of its pending requests.  The calls borrow the   *)
(* manager, so none is in progress.  The handler task leaves its loop      *)
(* when recv() returns None: every emitter is gone and the channel empty.  *)
(***************************************************************************)
\* a drop that leaves the contexts (and their emitter clones) alive
drop_contexts_leaked(map) == map

drop_contexts(map) == <<>>

emitter_handles(lc, map, handler_map) ==
    (IF lc = "alive" THEN 1 ELSE 0)
    + Cardinality(DOMAIN map) + Cardinality(DOMAIN handler_map)

AllSenders(map) ==
    UNION {Senders(map[m].pending_requests) : m \in DOMAIN map}

DropManager ==
    /\ lifecycle = "alive"
    /\ InFlight = {}
    /\ lifecycle' = "dropped"
    /\ models' = drop_contexts(models)
    /\ chan' = Deliver(chan, <<>>, AllSenders(models) \ AllSenders(models'))
    /\ UNCHANGED <<otherVars, inflight, executed, handlerModels, events, default_buffer_capacity,
                   default_threshold_percentage, pc, req, result, flushes,
                   pushedSince, thresholdSince, config_result>>

HandlerExit ==
    /\ lifecycle = "dropped"
    /\ FreeWorker
    /\ events = <<>>
    /\ emitter_handles(lifecycle, models, handlerModels) = 0
    /\ lifecycle' = "exited"
    /\ UNCHANGED <<otherVars, inflight, executed, models, handlerModels, events,
                   default_buffer_capacity, default_threshold_percentage, pc,
                   req, result, chan, flushes, pushedSince, thresholdSince,
                   config_result>>

Next ==
    \/ \E m \in ModelIds : RegisterModel(m)
    \/ \E capacity \in Capacities, t \in Thresholds : SetBufferConfig(capacity, t)
    \/ \E c \in Callers, m \in ModelIds : ProcessInference(c, m)
    \/ \E c \in Callers : AcquireAfterBlock(c)
    \/ \E c \in Callers : ResumeSingle(c)
    \/ EventHandlerTask
    \/ DropManager
    \/ HandlerExit

Spec == Init /\ [][Next]_vars

(***************************************************************************)
(* Component specification of ModelContext and handle_buffer_event: the    *)
(* requests are added with ModelContext::add_request, the receivers stay   *)
(* with their callers, and handle_buffer_event is applied to the map that  *)
(* holds the contexts.                                                     *)
(***************************************************************************)
CtxAddRequest(c, m) ==
    /\ NextCall(c)
    /\ contains_key(models, m)
    /\ LET a == add_request(models[m], PendingInferenceRequest(Request(m, c), c))
       IN /\ models' = [models EXCEPT ![m] = a.ctx]
          /\ events' = emit_all(events, a.emitted)
          /\ thresholdSince' = [thresholdSince EXCEPT
                                   ![m] = @ + CountThreshold(a.emitted)]
    /\ req' = [req EXCEPT ![c] = Request(m, c)]
    /\ pc' = [pc EXCEPT ![c] = "awaiting"]
    /\ chan' = [chan EXCEPT ![c] = oneshot_channel]
    /\ pushedSince' = [pushedSince EXCEPT ![m] = @ + 1]
    /\ UNCHANGED <<otherVars, inflight, executed, handlerModels, default_buffer_capacity,
                   default_threshold_percentage, result, flushes,
                   config_result, lifecycle>>

CtxHandleEvent ==
    /\ events # <<>>
    /\ \E answer \in Answers :
          LET h == handle_buffer_event(Head(events), models, answer)
          IN /\ models' = h.models
             /\ chan' = Deliver(chan, h.sent, h.dropped)
             /\ flushes' = flushes \cup h.flushes
             /\ executed' = Executions(executed, h.batches)
             /\ pushedSince' = [m \in ModelIds |->
                                   IF m \in h.drained THEN 0 ELSE pushedSince[m]]
             /\ thresholdSince' = [m \in ModelIds |->
                                      IF m \in h.drained THEN 0
                                      ELSE thresholdSince[m]]
    /\ events' = Tail(events)
    /\ UNCHANGED <<otherVars, inflight, handlerModels, default_buffer_capacity,
                   default_threshold_percentage, pc, req, result,
                   config_result, lifecycle>>

NextCtx ==
    \/ \E m \in ModelIds : RegisterModel(m)
    \/ \E capacity \in Capacities, t \in Thresholds : SetBufferConfig(capacity, t)
    \/ \E c \in Callers, m \in ModelIds : CtxAddRequest(c, m)
    \/ CtxHandleEvent

SpecCtx == Init /\ [][NextCtx]_vars

(***************************************************************************)
(* Specification of the ring alone: a new buffer of any capacity >= 1      *)
(* receives an arbitrary sequence of pushes.  `pushed` records the items   *)
(* in the order they were pushed.                                          *)
(***************************************************************************)
InitRing ==
    /\ InitSys
    /\ IdleClient
    /\ IdleStream
    /\ \E capacity \in 1..MaxRingCap : ring = CircularBuffer_new(capacity)
    /\ pushed = <<>>
    /\ IdleId
    /\ IdleDisc

RingPush(item) ==
    /\ Len(pushed) < MaxPushes
    /\ ring' = CircularBuffer_push(ring, item)
    /\ pushed' = Append(pushed, item)
    /\ UNCHANGED <<sysVars, idVars, discVars, clientVars, streamVars>>

NextRing == \E item \in Items : RingPush(item)

SpecRing == InitRing /\ [][NextRing]_vars

\* C1: after n pushes into a new buffer of capacity >= 1, len() = min(n,
\* capacity), len() = items().len(), is_empty() iff n = 0, and is_full()
\* iff n >= capacity.
C1_LenInvariant ==
    LET n == Len(pushed) IN
    /\ CircularBuffer_len(ring) = Min(n, CircularBuffer_capacity(ring))
    /\ CircularBuffer_len(ring) = Len(CircularBuffer_items(ring))
    /\ CircularBuffer_is_empty(ring) <=> (n = 0)
    /\ CircularBuffer_is_full(ring) <=> (Min(n, ring.capacity) = ring.capacity)

C1_Witness ==
    /\ Len(pushed) > ring.capacity + 1
    /\ ring.capacity > 1
    /\ CircularBuffer_is_full(ring)

\* The push with 0-based number p goes to slot p mod capacity.
LastPushInSlot(j, n, capacity) ==
    CHOOSE p \in 0..(n - 1) :
        /\ p % capacity = j
        /\ \A q \in 0..(n - 1) : q % capacity = j => q <= p

\* C2: while fewer than capacity items have been pushed, items() is the
\* pushed items in insertion order; after more than capacity pushes items()
\* holds exactly the last `capacity` pushed items, slot j holding the most
\* recent push whose 0-based number is congruent to j modulo capacity, and
\* the slot under the write cursor (the one the next push overwrites) holds
\* the oldest of them.
C2_RingContents ==
    LET n == Len(pushed)
        cap == CircularBuffer_capacity(ring)
        b == CircularBuffer_items(ring)
    IN /\ n < cap => b = pushed
       /\ \A j \in 0..(Len(b) - 1) : b[j + 1] = pushed[LastPushInSlot(j, n, cap) + 1]
       /\ n > cap =>
            /\ Len(b) = cap
            /\ \A i \in 1..cap : b[((n - cap + i - 1) % cap) + 1] = pushed[n - cap + i]
            /\ b[ring.index + 1] = pushed[n - cap + 1]
       /\ cap = 1 /\ n >= 1 => b = <<pushed[n]>>

C2_Witness ==
    /\ CircularBuffer_capacity(ring) = 3
    /\ Len(pushed) = 5
    /\ pushed[1] # pushed[4]
    /\ pushed[3] # pushed[5]
    /\ ring.index = 2

(***************************************************************************)
(* Properties of the dispatcher.                                           *)
(***************************************************************************)

\* C3: every process_inference call that returned a response has a prior
\* flush whose drained batch contained the call's request at some index i,
\* and the returned value is responses[i] of that flush.
C3_ReturnedFromFlush ==
    \A c \in Callers :
        (pc[c] = "done" /\ result[c].kind = "ok") =>
            \E f \in flushes : \E i \in DOMAIN f.requests :
                /\ f.requests[i] = req[c]
                /\ i \in DOMAIN f.responses
                /\ result[c] = f.responses[i]

\* C4: when the event handler takes a ThresholdReached event of a registered
\* model m from the channel, it drains m's buffer to length 0.
C4_ThresholdFlush ==
    [][\A m \in DOMAIN models :
          (/\ events # <<>>
           /\ Head(events).kind = "ThresholdReached"
           /\ Head(events).model_id = m
           /\ events' = Tail(events))
          => (m \in DOMAIN models' /\ InferenceBuffer_len(models'[m].buffer) = 0)]_vars

\* C5: in every flush the request at position i of the drained buffer is the
\* request submitted with the promise at position i of the pending list, and
\* every sender that received a response received the one computed for its
\* own request.
C5_Alignment ==
    /\ \A f \in flushes :
          \A i \in 1..Min(Len(f.requests), Len(f.pending)) :
              f.requests[i] = f.pending[i].request
    /\ \A c \in Callers :
          chan[c].state = "value" => chan[c].value = process_single(req[c])

\* C6: in every flush that the runtime answered in full, exactly the callers
\* whose requests are in the drained ring receive a response, each its own,
\* and the callers whose requests were evicted find their sender dropped
\* without a value.
C6_OverflowRouting ==
    \A f \in flushes : \A i \in DOMAIN f.pending :
        LET p == f.pending[i]
        IN Len(f.responses) = Len(f.requests) =>
           IF p.request \in Range(f.requests)
           THEN chan[p.response_tx] =
                    [state |-> "value", value |-> process_single(p.request)]
           ELSE chan[p.response_tx].state = "closed"

\* C7: for every model context, the length of the pending-response list
\* equals the number of add_request calls since the last drain.
C7_PendingMatchesPushes ==
    \A m \in DOMAIN models :
        Len(models[m].pending_requests) = pushedSince[m]

C7_Witness ==
    /\ flushes # {}
    /\ \E m \in DOMAIN models :
          /\ pushedSince[m] > CircularBuffer_capacity(models[m].buffer.ring)
          /\ CircularBuffer_is_full(models[m].buffer.ring)

\* C8: a process_inference call for a model name that is not in the registry
\* returns ModelNotFound, creates no registry entry and leaves every model
\* context unchanged.
C8_UnknownModel ==
    [][\A c \in Callers :
          (pc[c] = "idle" /\ pc'[c] # "idle" /\ req'[c].model_name \notin DOMAIN models)
          => /\ pc'[c] = "done"
             /\ result'[c] = ModelNotFound
             /\ models' = models]_vars

C8_Witness ==
    \E c \in Callers :
        /\ result[c] = ModelNotFound
        /\ req[c].model_name \notin DOMAIN models
        /\ \E m \in DOMAIN models : models[m].pending_requests # <<>>

\* C9: when a single request has been submitted to a registered model and
\* its caller has received the response, model_stats reports buffer length 0
\* for that model.
C9_SingleShotDrained ==
    \A c \in Callers :
        (/\ pc[c] = "done"
         /\ result[c].kind = "ok"
         /\ \A d \in Callers \ {c} : pc[d] = "idle"
         /\ req[c].model_name \in DOMAIN models)
        => get_model_stats(models)[req[c].model_name].len = 0

(***************************************************************************)
(* Liveness.  The worker threads keep polling the tasks that can run.      *)
(***************************************************************************)
FairSpec ==
    /\ Spec
    /\ \A c \in Callers : WF_vars(AcquireAfterBlock(c))
    /\ \A c \in Callers : WF_vars(ResumeSingle(c))
    /\ WF_vars(EventHandlerTask)
    /\ WF_vars(HandlerExit)

\* C10: every process_inference call that was issued eventually returns.
C10_EveryCallReturns ==
    \A c \in Callers : (pc[c] # "idle") ~> (pc[c] = "done")

\* C11: register_model for a model id that already has a context keeps the
\* existing context (buffer contents, pending promises, runtime).
C11_RegisterIdempotent ==
    [][\A m \in DOMAIN models : RegisterModel(m) => models'[m] = models[m]]_vars

C13_ConfigAffectsFuture ==
    [][/\ \A capacity \in Capacities, t \in Thresholds :
             SetBufferConfig(capacity, t) =>
                 /\ models' = models
                 /\ (config_result' = "ok") =>
                       /\ default_buffer_capacity' = capacity
                       /\ default_threshold_percentage' = t
       /\ \A m \in ModelIds :
             RegisterModel(m) =>
                 /\ CircularBuffer_capacity(models'[m].buffer.ring) =
                        default_buffer_capacity
                 /\ models'[m].buffer.threshold = default_threshold_percentage
                 /\ \A n \in DOMAIN models \ {m} : models'[n] = models[n]]_vars

\* one context registered before a successful call, one after it
C13_Witness ==
    /\ config_result = "ok"
    /\ \E m, n \in DOMAIN models :
          /\ CircularBuffer_capacity(models[m].buffer.ring) = DefaultBufferCapacity
          /\ models[m].buffer.threshold = DefaultThresholdPercentage
          /\ CircularBuffer_capacity(models[n].buffer.ring) =
                 default_buffer_capacity
          /\ models[n].buffer.threshold = default_threshold_percentage
          /\ default_buffer_capacity # DefaultBufferCapacity

\* C14: in a flush where the runtime returned fewer responses than there are
\* pending promises (one promise per drained request), the first |responses|
\* promises hold their responses pairwise and every surplus promise holds a
\* RuntimeProtocolError value.
C14_ShortAnswerFails ==
    \A f \in flushes : \A i \in DOMAIN f.pending :
        (Len(f.requests) = Len(f.pending) /\ Len(f.responses) < Len(f.pending))
        => IF i <= Len(f.responses)
           THEN chan[f.pending[i].response_tx] =
                    [state |-> "value", value |-> f.responses[i]]
           ELSE /\ chan[f.pending[i].response_tx].state = "value"
                /\ chan[f.pending[i].response_tx].value.kind =
                       "RuntimeProtocolError"

C16_OneThresholdPerCrossing ==
    \A m \in DOMAIN models :
        LET b == models[m].buffer
            above == 100 * InferenceBuffer_len(b) >=
                         b.threshold * CircularBuffer_capacity(b.ring)
        IN thresholdSince[m] = IF pushedSince[m] > 0 /\ above THEN 1 ELSE 0

\* a second crossing after a drain, with a further push above the watermark,
\* and a context still below its watermark
C16_Witness ==
    /\ \E m \in DOMAIN models :
          /\ \E f \in flushes : f.model_id = m
          /\ thresholdSince[m] = 1
          /\ pushedSince[m] >= 2
    /\ \E m \in DOMAIN models : pushedSince[m] > 0 /\ thresholdSince[m] = 0

(***************************************************************************)
(* The ModelId constructors on their own: an argument is chosen, one of    *)
(* the constructors is applied to it.                                      *)
(***************************************************************************)
InitId ==
    /\ InitSys
    /\ IdleClient
    /\ IdleStream
    /\ ring = CircularBuffer_new(1)
    /\ pushed = <<>>
    /\ IdleDisc
    /\ idIn \in Strings
    /\ idFn = "none"
    /\ idOut = None

ApplyFromPath ==
    /\ idFn = "none"
    /\ idFn' = "from_path"
    /\ idOut' = from_path(idIn)
    /\ UNCHANGED <<idIn, ring, pushed, streamVars, sysVars, discVars, clientVars>>

ApplyFromUrl ==
    /\ idFn = "none"
    /\ idFn' = "from_url"
    /\ idOut' = from_url(idIn)
    /\ UNCHANGED <<idIn, ring, pushed, streamVars, sysVars, discVars, clientVars>>

ApplyFromString ==
    /\ idFn = "none"
    /\ idFn' = "from_string"
    /\ idOut' = Some(from_string(idIn))
    /\ UNCHANGED <<idIn, ring, pushed, streamVars, sysVars, discVars, clientVars>>

NextId == ApplyFromPath \/ ApplyFromUrl \/ ApplyFromString

SpecId == InitId /\ [][NextId]_vars

(***************************************************************************)
(* discover_models.  The loop takes the sources in order; each iteration   *)
(* is a step, a directory source two (load_models_from_dir, then           *)
(* discover_from_directory, each with a read_dir of its own).  The models  *)
(* directory changes under the call.                                       *)
(***************************************************************************)
InitDisc ==
    /\ InitSys
    /\ IdleClient
    /\ IdleStream
    /\ ring = CircularBuffer_new(1)
    /\ pushed = <<>>
    /\ IdleId
    /\ \E capacity \in 1..MaxCap :
          /\ registry = ModelDiscoveryService_new(capacity).models
          /\ models_buffer_capacity =
                 ModelDiscoveryService_new(capacity).models_buffer_capacity
    /\ sources = <<>>
    /\ pos = 0
    /\ phase = "idle"
    /\ discovered_models = <<>>
    /\ returned = NoReturn
    /\ dir_state = "ok"
    /\ dir_entries = InitialEntries
    /\ fs_changes = 0
    /\ accepted = <<>>
    /\ calls = 0
    /\ answers = <<>>
    /\ previous_call = NoCall

\* an add_request that reaches the service before discover_models is called
DiscAddRequest(model_id) ==
    /\ phase = "idle"
    /\ Len(accepted) < MaxDiscRequests
    /\ LET request == [model_name |-> model_id, id |-> model_id]
       IN /\ registry' = ModelDiscoveryService_add_request(
                             registry, models_buffer_capacity, model_id, request)
          /\ accepted' = Append(accepted, [rpc |-> "add_request",
                                           request |-> request])
    /\ UNCHANGED <<ring, pushed, streamVars, sysVars, idVars, clientVars,
                   models_buffer_capacity,
                   sources, pos, phase, discovered_models, returned, dir_state,
                   dir_entries, fs_changes, callVars>>

\* the entry of a call: let mut discovered_models = Vec::new()
Enter(list) ==
    /\ sources' = list
    /\ pos' = 1
    /\ discovered_models' = <<>>
    /\ answers' = <<>>
    /\ calls' = calls + 1
    /\ IF list = <<>>
       THEN phase' = "done" /\ returned' = Ok(<<>>)
       ELSE phase' = "loop" /\ returned' = NoReturn

DiscoverModels(list) ==
    /\ phase = "idle"
    /\ Enter(list)
    /\ UNCHANGED <<ring, pushed, streamVars, sysVars, idVars, clientVars,
                   registry,
                   models_buffer_capacity, dir_state, dir_entries, fs_changes,
                   accepted, previous_call>>

\* discover_models is called again with the sources of the call before
DiscoverModelsAgain ==
    /\ phase = "done"
    /\ calls < MaxCalls
    /\ previous_call' = [ids |-> get_models(registry), answers |-> answers]
    /\ Enter(sources)
    /\ UNCHANGED <<ring, pushed, streamVars, sysVars, idVars, clientVars,
                   registry,
                   models_buffer_capacity, dir_state, dir_entries, fs_changes,
                   accepted>>

\* the end of an iteration: the next source, or Ok(discovered_models)
NextSource(list) ==
    /\ discovered_models' = list
    /\ pos' = pos + 1
    /\ IF pos = Len(sources)
       THEN phase' = "done" /\ returned' = Ok(list)
       ELSE phase' = "loop" /\ returned' = NoReturn

\* an error that is swallowed: the loop goes on with the next source
Fail_and_continue == NextSource(discovered_models)

\* the `?` on an error: the call returns it
Fail ==
    /\ phase' = "done"
    /\ returned' = Err
    /\ UNCHANGED <<pos, discovered_models>>

DiscoverSimple ==
    /\ phase = "loop"
    /\ \/ sources[pos].kind \in {"Url", "Id"}
       \/ sources[pos].kind = "Path" /\ ~is_dir(sources[pos].v, dir_state)
    /\ LET r == register_and_push(registry, models_buffer_capacity,
                                  discovered_models, source_id(sources[pos]))
       IN /\ registry' = r.models
          /\ NextSource(r.discovered)
    /\ UNCHANGED <<ring, pushed, streamVars, sysVars, idVars, clientVars,
                   models_buffer_capacity,
                   sources, dir_state, dir_entries, fs_changes, accepted,
                   callVars>>

DiscoverLoadDir ==
    /\ phase = "loop"
    /\ sources[pos].kind = "Path"
    /\ is_dir(sources[pos].v, dir_state)
    /\ \E listing \in Listings(dir_entries) :
          LET r == load_models_from_dir(registry, models_buffer_capacity,
                                        sources[pos].v, dir_state, listing)
          IN IF r.ok
             THEN /\ registry' = r.models
                  /\ phase' = "dir_loaded"
                  /\ answers' = Append(answers,
                         Answer(TRUE, directory_ids(sources[pos].v, listing)))
                  /\ UNCHANGED <<pos, discovered_models, returned>>
             ELSE /\ Fail
                  /\ answers' = Append(answers, Answer(FALSE, <<>>))
                  /\ UNCHANGED registry
    /\ UNCHANGED <<ring, pushed, streamVars, sysVars, idVars, clientVars,
                   models_buffer_capacity,
                   sources, dir_state, dir_entries, fs_changes, accepted,
                   calls, previous_call>>

DiscoverFromDirectory ==
    /\ phase = "dir_loaded"
    /\ \E listing \in Listings(dir_entries) :
          LET r == discover_from_directory(sources[pos].v, dir_state, listing)
          IN /\ answers' = Append(answers, Answer(r.ok, r.models))
             /\ IF r.ok
                THEN NextSource(discovered_models \o r.models)
                ELSE Fail
    /\ UNCHANGED <<ring, pushed, streamVars, sysVars, idVars, clientVars,
                   registry,
                   models_buffer_capacity, sources, dir_state, dir_entries,
                   fs_changes, accepted, calls, previous_call>>

DiscoverMLFlow ==
    /\ phase = "loop"
    /\ sources[pos].kind = "MLFlow"
    /\ \E response \in IF sources[pos].named THEN GetModelResponses
                                                ELSE ListModelsResponses :
          LET r == discover_from_mlflow(registry, models_buffer_capacity,
                                        sources[pos], response)
          IN /\ answers' = Append(answers, Answer(r.ok, r.discovered))
             /\ client_result' = client_call(sources[pos], response)
             /\ IF r.ok
                THEN /\ registry' = r.models
                     /\ NextSource(discovered_models \o r.discovered)
                ELSE /\ Fail
                     /\ UNCHANGED registry
    /\ UNCHANGED <<ring, pushed, streamVars, sysVars, idVars,
                   client_fn, client_pc, http_response, next_page_token,
                   all_items, requests_sent, pages,
                   models_buffer_capacity,
                   sources, dir_state, dir_entries, fs_changes, accepted,
                   calls, previous_call>>

\* another process adds or removes an entry of the models directory, or
\* makes the directory unreadable, or removes it
FsChange ==
    /\ phase # "done"
    /\ fs_changes < MaxFsChanges
    /\ fs_changes' = fs_changes + 1
    /\ \/ /\ \E e \in ChangingEntries :
                dir_entries' = IF e \in dir_entries
                               THEN dir_entries \ {e}
                               ELSE dir_entries \cup {e}
          /\ UNCHANGED dir_state
       \/ /\ \E state \in {"unreadable", "absent"} : dir_state' = state
          /\ UNCHANGED dir_entries
    /\ UNCHANGED <<ring, pushed, streamVars, sysVars, idVars, clientVars,
                   registry,
                   models_buffer_capacity, sources, pos, phase,
                   discovered_models, returned, accepted, callVars>>

NextDisc ==
    \/ \E list \in SourceLists : DiscoverModels(list)
    \/ DiscoverSimple
    \/ DiscoverLoadDir
    \/ DiscoverFromDirectory
    \/ DiscoverMLFlow
    \/ FsChange

SpecDisc == InitDisc /\ [][NextDisc]_vars

(***************************************************************************)
(* discover_models called again with the same sources, on a registry that  *)
(* may hold a buffered request from before the first call.                 *)
(***************************************************************************)
NextRedisc ==
    \/ \E model_id \in ModelNames : DiscAddRequest(model_id)
    \/ \E list \in ShortSourceLists : DiscoverModels(list)
    \/ DiscoverModelsAgain
    \/ DiscoverSimple
    \/ DiscoverLoadDir
    \/ DiscoverFromDirectory
    \/ DiscoverMLFlow
    \/ FsChange

SpecRedisc == InitDisc /\ [][NextRedisc]_vars

(***************************************************************************)
(* The gRPC front-end over a ModelDiscoveryService: model_infer and each   *)
(* message of model_infer_async convert the wire request and hand it to    *)
(* add_request; models are registered beside them.                         *)
(***************************************************************************)
ModelInferRequests == [id : RequestIds, model_name : ModelNames]

\* the InferenceRequest built from the wire request
InferenceRequest(wire) == [model_name |-> wire.model_name, id |-> wire.id]

\* let model_id = ModelId(req.id.clone()); add_request(model_id, request)
intake(map, capacity, wire) ==
    ModelDiscoveryService_add_request(map, capacity, wire.id,
                                      InferenceRequest(wire))

InitFront ==
    /\ InitSys
    /\ IdleClient
    /\ IdleStream
    /\ ring = CircularBuffer_new(1)
    /\ pushed = <<>>
    /\ IdleId
    /\ \E capacity \in 1..MaxCap :
          /\ registry = ModelDiscoveryService_new(capacity).models
          /\ models_buffer_capacity =
                 ModelDiscoveryService_new(capacity).models_buffer_capacity
    /\ sources = <<>>
    /\ pos = 0
    /\ phase = "idle"
    /\ discovered_models = <<>>
    /\ returned = NoReturn
    /\ dir_state = "ok"
    /\ dir_entries = {}
    /\ fs_changes = 0
    /\ accepted = <<>>
    /\ calls = 0
    /\ answers = <<>>
    /\ previous_call = NoCall

FrontRegisterModel(model_id) ==
    /\ registry' = ModelDiscoveryService_register_model(
                       registry, models_buffer_capacity, model_id)
    /\ UNCHANGED <<ring, pushed, streamVars, sysVars, idVars, clientVars,
                   models_buffer_capacity,
                   sources, pos, phase, discovered_models, returned, dir_state,
                   dir_entries, fs_changes, accepted, callVars>>

ModelInfer(wire) ==
    /\ Len(accepted) < MaxRequests
    /\ registry' = intake(registry, models_buffer_capacity, wire)
    /\ accepted' = Append(accepted, [rpc |-> "model_infer",
                                     request |-> InferenceRequest(wire)])
    /\ UNCHANGED <<ring, pushed, streamVars, sysVars, idVars, clientVars,
                   models_buffer_capacity,
                   sources, pos, phase, discovered_models, returned, dir_state,
                   dir_entries, fs_changes, callVars>>

\* one message of the stream of model_infer_async
ModelInferAsync(wire) ==
    /\ Len(accepted) < MaxRequests
    /\ registry' = intake(registry, models_buffer_capacity, wire)
    /\ accepted' = Append(accepted, [rpc |-> "model_infer_async",
                                     request |-> InferenceRequest(wire)])
    /\ UNCHANGED <<ring, pushed, streamVars, sysVars, idVars, clientVars,
                   models_buffer_capacity,
                   sources, pos, phase, discovered_models, returned, dir_state,
                   dir_entries, fs_changes, callVars>>

NextFront ==
    \/ \E model_id \in ModelNames : FrontRegisterModel(model_id)
    \/ \E wire \in ModelInferRequests : ModelInfer(wire)
    \/ \E wire \in ModelInferRequests : ModelInferAsync(wire)

SpecFront == InitFront /\ [][NextFront]_vars

\* C17: every request in the registry sits in the buffer of the entry whose
\* model id is the request's model name.
C17_PerModelGrouping ==
    \A model_id \in DOMAIN registry :
        \A i \in DOMAIN CircularBuffer_items(registry[model_id]) :
            CircularBuffer_items(registry[model_id])[i].model_name = model_id

\* C18: from_path returns an id iff the path has a final component and an
\* extension, the id is the final component, and a path that ends in a
\* separator and the empty path are rejected.
C18_FromPath ==
    idFn = "from_path" =>
        /\ idOut.some <=> (file_name(idIn).some /\ extension(idIn).some)
        /\ idOut.some => idOut.v = file_name(idIn).v
        /\ (idIn # <<>> /\ last(idIn) = "/") => ~idOut.some
        /\ idIn = <<>> => ~idOut.some

\* C19: from_url rejects a URL that ends in a separator and otherwise
\* returns what follows the last separator of the URL (the whole URL when it
\* has none); from_string returns its argument.
C19_FromUrl ==
    /\ idFn = "from_url" =>
          /\ (idIn # <<>> /\ last(idIn) = "/") => ~idOut.some
          /\ (idIn # <<>> /\ last(idIn) # "/") =>
                /\ idOut.some
                /\ idOut.v # <<>>
                /\ "/" \notin Range(idOut.v)
                /\ Len(idOut.v) <= Len(idIn)
                /\ SubSeq(idIn, Len(idIn) - Len(idOut.v) + 1, Len(idIn)) = idOut.v
                /\ Len(idOut.v) < Len(idIn) =>
                       idIn[Len(idIn) - Len(idOut.v)] = "/"
    /\ idFn = "from_string" => idOut = Some(idIn)

\* a URL with a separator inside and a segment after it
C19_Witness ==
    /\ idFn = "from_url"
    /\ idOut.some
    /\ Len(idOut.v) < Len(idIn)
    /\ \E i \in 1..(Len(idIn) - Len(idOut.v) - 1) : idIn[i] = "/"

\* Id, Url and Path sources that name no directory
C20_Plain(source) ==
    source.kind \in {"Id", "Url"} \/ (source.kind = "Path" /\ source.v # ModelsDir)

\* the ids such sources give, in the order of the list
RECURSIVE C20_Ids(_)
C20_Ids(list) ==
    IF list = <<>> THEN <<>>
    ELSE (IF source_id(Head(list)).some THEN <<source_id(Head(list)).v>> ELSE <<>>)
         \o C20_Ids(Tail(list))

\* C20: discover_models takes its sources in list order: over Id, Url and
\* file Path sources the list built so far is the ids of the sources
\* already handled, in their order, each registered; the call returns that
\* list, and for [Id(a), Url(a/b), Path(/a.b)] it returns [a, b, a.b] with
\* the three ids registered.
C20_InOrder ==
    /\ (phase \in {"loop", "done"} /\ \A i \in DOMAIN sources : C20_Plain(sources[i]))
       => /\ discovered_models = C20_Ids(SubSeq(sources, 1, pos - 1))
          /\ Range(discovered_models) \subseteq get_models(registry)
          /\ phase = "done" => (pos = Len(sources) + 1 /\ returned = Ok(discovered_models))
    /\ (phase = "done" /\
        sources = <<Id(<<"a">>), Url(<<"a", "/", "b">>), Path(<<"/", "a", ".", "b">>)>>)
       => /\ returned = Ok(<< <<"a">>, <<"b">>, <<"a", ".", "b">> >>)
          /\ {<<"a">>, <<"b">>, <<"a", ".", "b">>} \subseteq get_models(registry)

C20_Witness ==
    /\ phase = "done"
    /\ returned.kind = "ok"
    /\ sources = <<Id(<<"a">>), Url(<<"a", "/", "b">>), Path(<<"/", "a", ".", "b">>)>>
    /\ fs_changes > 0

\* C21: when discover_models has run again on the same sources and every
\* directory and registry source answered as in the call before (the same
\* ids, or the same error), the set of registered ids is the one the call
\* before left.
C21_Idempotent ==
    (calls >= 2 /\ phase = "done" /\ answers = previous_call.answers)
    => get_models(registry) = previous_call.ids

\* a second call over a directory or registry source that answered with ids
\* both times
C21_Witness ==
    /\ calls = 2
    /\ phase = "done"
    /\ returned.kind = "ok"
    /\ answers = previous_call.answers
    /\ \E i \in DOMAIN answers : answers[i].ids # <<>>
    /\ discovered_models # <<>>

\* C22: no step of discover_models removes a registry entry or changes one
\* that exists: an entry found by a source again keeps its buffered
\* requests, its capacity and its write cursor.
C22_Additive ==
    [][(accepted' = accepted) =>
          \A id \in DOMAIN registry :
              id \in DOMAIN registry' /\ registry'[id] = registry[id]]_vars

\* a source has given the id of an entry that holds a buffered request
C22_Witness ==
    \E i \in DOMAIN discovered_models :
        /\ discovered_models[i] \in DOMAIN registry
        /\ CircularBuffer_len(registry[discovered_models[i]]) > 0

\* C23: every id in the list discover_models returns is in the registry
\* when the call returns.
C23_ReturnedAreRegistered ==
    (phase = "done" /\ returned.kind = "ok")
    => Range(returned.models) \subseteq get_models(registry)

(***************************************************************************)
(* The registry client on its own: one call of get_model or of             *)
(* list_models against a server that answers as it likes.  The server      *)
(* gives at most MaxPages pages: the last of them carries no token.        *)
(***************************************************************************)
InitClient ==
    /\ InitSys
    /\ IdleClient
    /\ IdleStream
    /\ ring = CircularBuffer_new(1)
    /\ pushed = <<>>
    /\ IdleId
    /\ IdleDisc

GetModel(response) ==
    /\ client_pc = "idle"
    /\ client_fn' = "get_model"
    /\ http_response' = response
    /\ client_result' = MLFlowClient_get_model(response)
    /\ client_pc' = "done"
    /\ UNCHANGED <<ring, pushed, streamVars, sysVars, idVars, discVars, next_page_token,
                   all_items, requests_sent, pages>>

ListModels ==
    /\ client_pc = "idle"
    /\ client_fn' = "list_models"
    /\ all_items' = <<>>
    /\ next_page_token' = None
    /\ client_pc' = "paging"
    /\ UNCHANGED <<ring, pushed, streamVars, sysVars, idVars, discVars, http_response,
                   requests_sent, pages, client_result>>

GetPage(page) ==
    /\ client_pc = "paging"
    /\ page.sent /\ page.next_page_token.some => Len(pages) < MaxPages - 1
    /\ LET r == get_all_pages(all_items, next_page_token, page)
       IN /\ requests_sent' =
                 Append(requests_sent, page_url(ListModelsEndpoint, next_page_token))
          /\ pages' = Append(pages, page)
          /\ all_items' = r.all_items
          /\ next_page_token' = r.next_page_token
          /\ client_result' = r.result
          /\ client_pc' = IF r.done THEN "done" ELSE "paging"
    /\ UNCHANGED <<ring, pushed, streamVars, sysVars, idVars, discVars, client_fn,
                   http_response>>

NextClient ==
    \/ \E response \in GetModelHttpResponses : GetModel(response)
    \/ ListModels
    \/ \E page \in PageResponses : GetPage(page)

SpecClient == InitClient /\ [][NextClient]_vars

\* the runtime polls the call's future until it completes
FairSpecClient ==
    SpecClient /\ WF_vars(\E page \in PageResponses : GetPage(page))

RECURSIVE Concat(_)
Concat(lists) ==
    IF lists = <<>> THEN <<>> ELSE Head(lists) \o Concat(Tail(lists))

\* C24, as stated: for a response that arrived, a success status gives
\* Some(model), 404 gives None without an error, and any other status gives
\* a failure carrying the status and the body.
C24_AnySuccess ==
    (client_fn = "get_model" /\ client_pc = "done" /\ http_response.sent)
    => IF is_success(http_response.status)
       THEN client_result = ClientOk(Some(http_response.model), <<>>)
       ELSE IF http_response.status = NOT_FOUND
       THEN client_result = ClientOk(None, <<>>)
       ELSE /\ ~client_result.ok
            /\ client_result.error.status = http_response.status
            /\ client_result.error.body = unwrap_or_default(http_response.text)

\* C24, amended: a success status whose body decodes as a registered model
\* gives Some(model) and one whose body does not decode gives a failure;
\* 404 gives None without an error; any other status gives a failure
\* carrying the status and the body.
C24_GetModel ==
    (client_fn = "get_model" /\ client_pc = "done" /\ http_response.sent)
    => IF is_success(http_response.status)
       THEN IF http_response.decodes
            THEN client_result = ClientOk(Some(http_response.model), <<>>)
            ELSE ~client_result.ok /\ client_result.error.kind = "decode"
       ELSE IF http_response.status = NOT_FOUND
       THEN client_result = ClientOk(None, <<>>)
       ELSE /\ ~client_result.ok
            /\ client_result.error.kind = "status"
            /\ client_result.error.status = http_response.status
            /\ client_result.error.body = unwrap_or_default(http_response.text)

\* get_model returned None for a 404 whose body it did not look at
C24_Witness ==
    /\ client_fn = "get_model"
    /\ client_pc = "done"
    /\ http_response.sent
    /\ http_response.status = NOT_FOUND
    /\ http_response.text = Some(<<"a">>)
    /\ client_result = ClientOk(None, <<>>)

C25_Requests ==
    /\ Len(pages) = Len(requests_sent)
    /\ requests_sent # <<>> => requests_sent[1] = ListModelsEndpoint
    /\ \A i \in 2..Len(requests_sent) :
          /\ pages[i - 1] \in GoodPages
          /\ pages[i - 1].next_page_token.some
          /\ requests_sent[i] = ListModelsEndpoint \o <<"&page_token=">>
                                    \o pages[i - 1].next_page_token.v

C25_Result ==
    (client_fn = "list_models" /\ client_pc = "done")
    => LET final == pages[Len(pages)]
       IN IF final \in GoodPages
          THEN /\ ~final.next_page_token.some
               /\ client_result.ok
               /\ client_result.items =
                      Concat([i \in DOMAIN pages |-> pages[i].items])
          ELSE /\ ~client_result.ok
               /\ client_result.items = <<>>

C25_Continues ==
    (client_fn = "list_models" /\ client_pc = "paging" /\ pages # <<>>)
    => /\ pages[Len(pages)] \in GoodPages
       /\ pages[Len(pages)].next_page_token.some

\* C25: list_models sends the first request without a token and every later
\* one with exactly the token of the page before; it goes on while pages
\* carry a token, stops at the first page without one and returns the
\* entries of all pages in page order; a page that fails or does not decode
\* fails the call with no list; when the server comes to a page without a
\* token the call ends.
C25_Paging ==
    /\ [](C25_Requests /\ C25_Result /\ C25_Continues)
    /\ (client_pc = "paging") ~> (client_pc = "done")

\* a call that took three pages, the first two with different tokens
C25_Witness ==
    /\ client_fn = "list_models"
    /\ client_pc = "done"
    /\ client_result.ok
    /\ Len(pages) = 3
    /\ pages[1].next_page_token # pages[2].next_page_token
    /\ Len(client_result.items) = 3

C28_BufferFullDrains ==
    [][(/\ events # <<>>
        /\ Head(events).kind = "BufferFull"
        /\ Head(events).model_id \in DOMAIN models
        /\ events' = Tail(events))
       => LET m == Head(events).model_id
              pending == models[m].pending_requests
          IN /\ InferenceBuffer_len(models'[m].buffer) = 0
             /\ models'[m].pending_requests = <<>>
             /\ \A i \in DOMAIN pending :
                   chan'[pending[i].response_tx] =
                       oneshot_send(oneshot_channel,
                                    process_single(pending[i].request))]_vars

(***************************************************************************)
(* Component specification of the flush in time: as SpecCtx, with the      *)
(* handler suspended in its runtime call between FlushBegin and            *)
(* FlushComplete.  get_mut of an intake waits while the handler holds the  *)
(* guard of the entry (DashMap locks the shard of the key; the model locks *)
(* the key only).  A caller may drop its receiver while it waits for the   *)
(* response.                                                               *)
(***************************************************************************)
Intake(c, request) ==
    LET m == request.model_name
        a == add_request(models[m], PendingInferenceRequest(request, c))
    IN /\ models' = [models EXCEPT ![m] = a.ctx]
       /\ events' = emit_all(events, a.emitted)
       /\ thresholdSince' = [thresholdSince EXCEPT
                                ![m] = @ + CountThreshold(a.emitted)]
       /\ pushedSince' = [pushedSince EXCEPT ![m] = @ + 1]
       /\ pc' = [pc EXCEPT ![c] = "awaiting"]

FlushAddRequest(c, m) ==
    /\ NextCall(c)
    /\ c <= MaxFlushCallers
    /\ contains_key(models, m)
    /\ req' = [req EXCEPT ![c] = Request(m, c)]
    /\ chan' = [chan EXCEPT ![c] = oneshot_channel]
    /\ IF HandlerGuard(m)
       THEN /\ pc' = [pc EXCEPT ![c] = "waiting"]
            /\ UNCHANGED <<models, events, thresholdSince, pushedSince>>
       ELSE Intake(c, Request(m, c))
    /\ UNCHANGED <<otherVars, inflight, executed, handlerModels,
                   default_buffer_capacity, default_threshold_percentage,
                   result, flushes, config_result, lifecycle>>

FlushAcquire(c) ==
    /\ pc[c] = "waiting"
    /\ ~HandlerGuard(req[c].model_name)
    /\ Intake(c, req[c])
    /\ UNCHANGED <<otherVars, inflight, executed, handlerModels,
                   default_buffer_capacity, default_threshold_percentage,
                   req, chan, result, flushes, config_result, lifecycle>>

FlushCancel(c) ==
    /\ pc[c] = "awaiting"
    /\ chan[c].state = "open"
    /\ pc' = [pc EXCEPT ![c] = "cancelled"]
    /\ chan' = [chan EXCEPT ![c] = oneshot_drop_rx(chan[c])]
    /\ UNCHANGED <<otherVars, inflight, executed, models, handlerModels,
                   events, default_buffer_capacity,
                   default_threshold_percentage, req, result, flushes,
                   pushedSince, thresholdSince, config_result, lifecycle>>

FlushBegin ==
    /\ events # <<>>
    /\ ~inflight.active
    /\ LET b == begin_buffer_event(Head(events), models)
       IN /\ models' = b.models
          /\ inflight' = b.call
          /\ chan' = Deliver(chan, <<>>, b.dropped)
          /\ executed' = Executions(executed, Batch(b.call.requests))
          /\ pushedSince' = [m \in ModelIds |->
                                IF m \in b.drained THEN 0 ELSE pushedSince[m]]
          /\ thresholdSince' = [m \in ModelIds |->
                                   IF m \in b.drained THEN 0
                                   ELSE thresholdSince[m]]
    /\ events' = Tail(events)
    /\ UNCHANGED <<otherVars, handlerModels, default_buffer_capacity,
                   default_threshold_percentage, pc, req, result, flushes,
                   config_result, lifecycle>>

FlushComplete ==
    /\ inflight.active
    /\ \E answer \in Answers :
          LET r == complete_buffer_event(inflight, answer)
          IN /\ chan' = Deliver(chan, r.sent, r.dropped)
             /\ flushes' = flushes \cup r.flushes
    /\ inflight' = NoInflight
    /\ UNCHANGED <<otherVars, executed, models, handlerModels, events,
                   default_buffer_capacity, default_threshold_percentage, pc,
                   req, result, pushedSince, thresholdSince, config_result,
                   lifecycle>>

NextFlush ==
    \/ \E m \in ModelIds : RegisterModel(m)
    \/ \E capacity \in Capacities, t \in Thresholds : SetBufferConfig(capacity, t)
    \/ \E c \in Callers, m \in ModelIds : FlushAddRequest(c, m)
    \/ \E c \in Callers : FlushAcquire(c)
    \/ \E c \in Callers : FlushCancel(c)
    \/ FlushBegin
    \/ FlushComplete

SpecFlush == Init /\ [][NextFlush]_vars

\* C26: while the handler awaits a runtime call it holds no guard of a
\* registry entry.
C26_NoGuardAcrossRuntime == inflight.active => inflight.guard = "none"

\* C27: no intake waits for the entry of its model while the handler awaits
\* the runtime call of a flush of that model.
C27_IntakeNotBlocked ==
    \A c \in Callers :
        pc[c] = "waiting" => ~(inflight.active /\ inflight.model_id = req[c].model_name)

\* C30: a promise of a flushed batch whose receiver was dropped holds
\* nothing, and every other promise that the answer reaches holds the
\* response paired with it: the response for its own request when the
\* batch has a promise for each request.
C30_Cancellation ==
    \A f \in flushes :
        \A i \in 1..Min(Len(f.pending), Len(f.responses)) :
            LET tx == f.pending[i].response_tx
            IN IF pc[tx] = "cancelled"
               THEN chan[tx] = oneshot_drop_rx(oneshot_channel)
               ELSE /\ chan[tx] = oneshot_send(oneshot_channel, f.responses[i])
                    /\ Len(f.pending) = Len(f.requests)
                       => chan[tx].value = process_single(f.pending[i].request)

\* a flush whose first promise was cancelled and whose second holds its
\* response
C30_Witness ==
    \E f \in flushes :
        /\ Len(f.pending) = 2
        /\ Len(f.responses) = 2
        /\ pc[f.pending[1].response_tx] = "cancelled"
        /\ chan[f.pending[2].response_tx].state = "value"

RECURSIVE CircularBuffer_push_all(_, _)
CircularBuffer_push_all(self, items) ==
    IF items = <<>> THEN self
    ELSE CircularBuffer_push_all(CircularBuffer_push(self, Head(items)), Tail(items))

intakeFrame ==
    <<ring, pushed, idVars, clientVars, streamVars, models, handlerModels, events,
      default_buffer_capacity, default_threshold_percentage, result, chan,
      flushes, pushedSince, thresholdSince, config_result, lifecycle,
      executed, inflight, models_buffer_capacity, sources, pos, phase,
      discovered_models, returned, dir_state, dir_entries, fs_changes,
      accepted, callVars>>

InitIntake ==
    /\ InitSys
    /\ IdleClient
    /\ IdleStream
    /\ ring = CircularBuffer_new(1)
    /\ pushed = <<>>
    /\ IdleId
    /\ \E capacity \in 0..MaxCap :
          /\ registry = ModelDiscoveryService_new(capacity).models
          /\ models_buffer_capacity =
                 ModelDiscoveryService_new(capacity).models_buffer_capacity
    /\ sources = <<>>
    /\ pos = 0
    /\ phase = "idle"
    /\ discovered_models = <<>>
    /\ returned = NoReturn
    /\ dir_state = "ok"
    /\ dir_entries = {}
    /\ fs_changes = 0
    /\ accepted = <<>>
    /\ calls = 0
    /\ answers = <<>>
    /\ previous_call = NoCall

\* the callers inside add_request for model_id, holding the entry's guard
EntryGuards(model_id) ==
    {c \in Callers : pc[c] \in {"entry", "locked"} /\ req[c].model_name = model_id}

\* CircularBuffer::push panics: no free slot and none at the cursor
CircularBuffer_push_panics(self) ==
    /\ ~(Len(self.buffer) < self.capacity)
    /\ self.index >= Len(self.buffer) \/ self.capacity = 0

\* a push made on a copy of the buffer taken before the others pushed
add_request_push_stale(map, model_id, request) ==
    [map EXCEPT ![model_id] =
        CircularBuffer_push(CircularBuffer_new(@.capacity), request)]

\* buffer.push(req) under the mutex of the entry
add_request_push(map, model_id, request) ==
    [map EXCEPT ![model_id] = CircularBuffer_push(@, request)]

IntakeRegister(model_id) ==
    /\ EntryGuards(model_id) = {}
    /\ registry' = ModelDiscoveryService_register_model(
                       registry, models_buffer_capacity, model_id)
    /\ UNCHANGED <<intakeFrame, pc, req>>

\* self.models.entry(model_id).or_insert_with(..)
IntakeEntry(c, model_id) ==
    /\ NextCall(c)
    /\ EntryGuards(model_id) = {}
    /\ registry' = ModelDiscoveryService_register_model(
                       registry, models_buffer_capacity, model_id)
    /\ req' = [req EXCEPT ![c] = Request(model_id, c)]
    /\ pc' = [pc EXCEPT ![c] = "entry"]
    /\ UNCHANGED intakeFrame

\* buffer.lock().unwrap()
IntakeLock(c) ==
    /\ pc[c] = "entry"
    /\ pc' = [pc EXCEPT ![c] = "locked"]
    /\ UNCHANGED <<intakeFrame, registry, req>>

\* buffer.push(req), then the guards go out of scope
IntakePush(c) ==
    /\ pc[c] = "locked"
    /\ IF CircularBuffer_push_panics(registry[req[c].model_name])
       THEN pc' = [pc EXCEPT ![c] = "panicked"] /\ UNCHANGED registry
       ELSE /\ registry' = add_request_push(registry, req[c].model_name, req[c])
            /\ pc' = [pc EXCEPT ![c] = "done"]
    /\ UNCHANGED <<intakeFrame, req>>

NextIntake ==
    \/ \E model_id \in ModelIds : IntakeRegister(model_id)
    \/ \E c \in Callers, model_id \in ModelIds : IntakeEntry(c, model_id)
    \/ \E c \in Callers : IntakeLock(c)
    \/ \E c \in Callers : IntakePush(c)

SpecIntake == InitIntake /\ [][NextIntake]_vars

\* C32: no public operation makes a push into a ring of capacity 0: no call
\* panics in CircularBuffer::push.
C32_NoPushIntoZeroCapacity == \A c \in Callers : pc[c] # "panicked"

\* the calls of add_request for model_id that have returned
Returned(model_id) ==
    {c \in Callers : pc[c] = "done" /\ req[c].model_name = model_id}

\* C37: whatever the interleaving of the add_request calls for an id, the
\* id has one entry of the configured capacity once a call has gone through
\* entry(), the buffer holds min(n, capacity) requests after n calls have
\* returned, and each of them is a request one of these calls submitted.
C37_ConcurrentIntake ==
    \A model_id \in ModelIds :
        /\ (\E c \in Callers : pc[c] # "idle" /\ req[c].model_name = model_id)
           => model_id \in DOMAIN registry
        /\ model_id \in DOMAIN registry =>
              LET b == registry[model_id]
              IN /\ CircularBuffer_capacity(b) = models_buffer_capacity
                 /\ CircularBuffer_len(b) =
                        Min(Cardinality(Returned(model_id)), models_buffer_capacity)
                 /\ \A i \in DOMAIN CircularBuffer_items(b) :
                       /\ CircularBuffer_items(b)[i] \in
                              {req[c] : c \in Returned(model_id)}
                       /\ \A j \in DOMAIN CircularBuffer_items(b) :
                             CircularBuffer_items(b)[i] = CircularBuffer_items(b)[j]
                             => i = j

\* three calls for one unknown id have returned while the buffer holds two
C37_Witness ==
    \E model_id \in DOMAIN registry :
        /\ Cardinality(Returned(model_id)) = 3
        /\ models_buffer_capacity = 2
        /\ CircularBuffer_len(registry[model_id]) = 2

(***************************************************************************)
(* The sources of discover_models, one kind at a time.                     *)
(***************************************************************************)
\* the ids of the sub-directories of the models directory whose path gives
\* an id
ValidSubdirectories(dir, entries) ==
    {from_path(entry_path(dir, e)).v :
        e \in {d \in entries : d.is_dir /\ from_path(entry_path(dir, d)).some}}

\* the iteration over a Path source that is a directory: the first read
LoadDirStep == phase = "loop" /\ phase' = "dir_loaded"

\* the second read, which gives the ids the call returns for the source
FromDirectoryStep == phase = "dir_loaded" /\ phase' # "dir_loaded" /\ returned' # Err

\* the iteration over a Path source that is not a directory
FilePathStep ==
    /\ phase = "loop"
    /\ sources[pos].kind = "Path"
    /\ pos' = pos + 1

\* C33: a Path source that is a directory registers the ids of exactly the
\* sub-directories whose path gives an id, and adds exactly those ids to
\* the returned list, each once (files and sub-directories without an id
\* are left out); a Path source that is not a directory registers and
\* returns its own id iff its path gives one.  A call over the models
\* directory alone, on a directory nobody changes, returns and registers
\* the same ids.
C33_PathStep ==
    /\ LoadDirStep =>
          /\ get_models(registry') =
                 get_models(registry) \cup ValidSubdirectories(sources[pos].v, dir_entries)
          /\ discovered_models' = discovered_models
    /\ FromDirectoryStep =>
          \E ids \in Listings(ValidSubdirectories(sources[pos].v, dir_entries)) :
              /\ discovered_models' = discovered_models \o ids
              /\ registry' = registry
    /\ FilePathStep =>
          LET id == from_path(sources[pos].v)
          IN IF id.some
             THEN /\ get_models(registry') = get_models(registry) \cup {id.v}
                  /\ discovered_models' = Append(discovered_models, id.v)
             ELSE /\ registry' = registry
                  /\ discovered_models' = discovered_models

C33_WholeCall ==
    (phase = "done" /\ returned.kind = "ok" /\ fs_changes = 0
        /\ sources = <<Path(ModelsDir)>>)
    => /\ Range(returned.models) = ValidSubdirectories(ModelsDir, InitialEntries)
       /\ get_models(registry) = ValidSubdirectories(ModelsDir, InitialEntries)
       /\ Len(returned.models) = Cardinality(get_models(registry))

C33_PathSource == [][C33_PathStep]_vars /\ []C33_WholeCall

\* a call over the models directory and a file path has returned the
\* sub-directory a.a and the file's id, and neither the file a.b of the
\* directory nor its sub-directory b
C33_Witness ==
    /\ phase = "done"
    /\ sources = <<Path(ModelsDir), Path(<<"/", "a", ".", "b">>)>>
    /\ returned = Ok(<< <<"a", ".", "a">>, <<"a", ".", "b">> >>)
    /\ get_models(registry) = {<<"a", ".", "a">>, <<"a", ".", "b">>}
    /\ fs_changes = 0

\* the iteration over an MLFlow source
MLFlowStep ==
    /\ phase = "loop"
    /\ sources[pos].kind = "MLFlow"
    /\ (pos' = pos + 1 \/ phase' = "done")

\* C34: an MLFlow source with a name asks for that model: when the client
\* gives a model, its id is registered and appended to the list; when the
\* client gives none (the registry answered 404), nothing is registered,
\* nothing is appended and the call goes on without an error.  Without a
\* name it lists the models and registers and appends the id of each, in
\* the order the client gave them.
C34_RegistryStep ==
    MLFlowStep =>
        LET r == client_result'
        IN /\ (sources[pos].named /\ r.ok /\ r.model.some) =>
                 /\ get_models(registry') = get_models(registry) \cup {r.model.v}
                 /\ discovered_models' = Append(discovered_models, r.model.v)
                 /\ returned' # Err
           /\ (sources[pos].named /\ r.ok /\ ~r.model.some) =>
                 /\ registry' = registry
                 /\ discovered_models' = discovered_models
                 /\ returned' # Err
                 /\ pos' = pos + 1
           /\ (~sources[pos].named /\ r.ok) =>
                 /\ get_models(registry') = get_models(registry) \cup Range(r.items)
                 /\ discovered_models' = discovered_models \o r.items
                 /\ returned' # Err
           /\ ~r.ok => (registry' = registry /\ returned' = Err)

C34_RegistrySource == [][C34_RegistryStep]_vars

\* a call over a named source answered with 404 and then an unnamed source
\* answered with two models has returned the two, in the registry's order
C34_Witness ==
    /\ phase = "done"
    /\ sources = <<MLFlow(Some(<<"a">>)), MLFlow(None)>>
    /\ answers = <<Answer(TRUE, <<>>), Answer(TRUE, << <<"b">>, <<"a">> >>)>>
    /\ returned = Ok(<< <<"b">>, <<"a">> >>)
    /\ get_models(registry) = {<<"a">>, <<"b">>}

\* the iteration over a Url source, or a Path source that is no directory,
\* that gives no id
RejectedStep ==
    /\ phase = "loop"
    /\ sources[pos].kind \in {"Url", "Path"}
    /\ ~(sources[pos].kind = "Path" /\ is_dir(sources[pos].v, dir_state))
    /\ ~source_id(sources[pos]).some
    /\ (pos' # pos \/ phase' # phase)

\* C35: a Url or Path source that gives no id registers nothing, adds
\* nothing to the list and does not fail the call: the loop goes on with
\* the source after it, or returns the list when it was the last.  A call
\* that returned a list has gone through all its sources.
C35_RejectedStep ==
    RejectedStep =>
        /\ registry' = registry
        /\ discovered_models' = discovered_models
        /\ pos' = pos + 1
        /\ returned' # Err
        /\ IF pos < Len(sources)
           THEN phase' = "loop" /\ returned' = NoReturn
           ELSE phase' = "done" /\ returned' = Ok(discovered_models)

C35_AllProcessed ==
    (phase = "done" /\ returned.kind = "ok") => pos = Len(sources) + 1

C35_RejectedSource == [][C35_RejectedStep]_vars /\ []C35_AllProcessed

\* a Url and a Path without an id were skipped and the Id after them was
\* registered and returned
C35_Witness ==
    /\ phase = "done"
    /\ sources = <<Url(<<"b", "/">>), Path(<<"/", "a">>), Id(<<"a">>)>>
    /\ returned = Ok(<< <<"a">> >>)
    /\ get_models(registry) = {<<"a">>}

\* an iteration in which a read of the directory or the registry client
\* gave an error
FailingStep ==
    /\ Len(answers') = Len(answers) + 1
    /\ ~answers'[Len(answers')].ok

\* the ids of the Id, Url and file Path sources before position k
C36_PlainIdsBefore(k) ==
    {source_id(sources[j]).v :
        j \in {i \in 1..(k - 1) : C20_Plain(sources[i]) /\ source_id(sources[i]).some}}

\* the ids the sources up to position k have given: the ones above, and
\* those the directory and the registry answered with
C36_IdsUpTo(k) ==
    C36_PlainIdsBefore(k) \cup UNION {Range(answers[n].ids) : n \in DOMAIN answers}

\* C36: when a read of the directory or the registry client fails on the
\* source at position k, discover_models returns the error and no list,
\* stops at k, and leaves every registry entry as it is; after the failure
\* the ids of the Id, Url and file Path sources before k are registered,
\* and no id that only a source after k gives is.
C36_FailStep ==
    FailingStep =>
        /\ returned' = Err
        /\ phase' = "done"
        /\ pos' = pos
        /\ \A id \in DOMAIN registry :
              id \in DOMAIN registry' /\ registry'[id] = registry[id]

C36_AfterFailure ==
    returned = Err =>
        /\ phase = "done"
        /\ pos \in DOMAIN sources
        /\ returned.models = <<>>
        /\ answers # <<>> /\ ~answers[Len(answers)].ok
        /\ C36_PlainIdsBefore(pos) \subseteq get_models(registry)
        /\ get_models(registry) \subseteq C36_IdsUpTo(pos)

C36_FailureNotRolledBack == [][C36_FailStep]_vars /\ []C36_AfterFailure

\* the directory became unreadable between its two reads: the call failed
\* on the second source of three, the id of the first source and the one
\* the first read registered are in the registry, the third source's is not
C36_Witness ==
    /\ returned = Err
    /\ sources = <<Id(<<"a">>), Path(ModelsDir), Url(<<"a", "/", "b">>)>>
    /\ pos = 2
    /\ get_models(registry) = {<<"a">>, <<"a", ".", "a">>}

(***************************************************************************)
(* Isolation of the models from one another.                               *)
(***************************************************************************)
\* a call of a caller for a model other than B makes a step
IntakeStepBeside(B) ==
    \E c \in Callers : pc'[c] # pc[c] /\ req'[c].model_name # B

\* the handler takes an event of a model other than B
EventStepBeside(B) ==
    /\ events # <<>>
    /\ events' = Tail(events)
    /\ Head(events).model_id # B

\* C38: a step of an add_request or process_inference for a model A, and
\* the handling of a buffer event of A (its flush included), leave the
\* context of every other model B as it is: its ring with its write
\* cursor, its flags and its pending list; an add_request of the discovery
\* service for A leaves the buffer of every other B as it is.
C38_IsolationStep ==
    /\ \A B \in DOMAIN models :
          (IntakeStepBeside(B) \/ EventStepBeside(B))
          => (B \in DOMAIN models' /\ models'[B] = models[B])
    /\ \A B \in DOMAIN registry :
          IntakeStepBeside(B)
          => (B \in DOMAIN registry' /\ registry'[B] = registry[B])

C38_CrossModelIsolation == [][C38_IsolationStep]_vars

\* model a has been flushed while model b holds a pending request
C38_Witness ==
    /\ {"a", "b"} \subseteq DOMAIN models
    /\ \E f \in flushes : f.model_id = "a"
    /\ models["b"].pending_requests # <<>>
    /\ CircularBuffer_len(models["b"].buffer.ring) > 0
    /\ models["a"].pending_requests = <<>>

(***************************************************************************)
(* unified_infer_stream.  The spawned task reads the client's messages one *)
(* by one, keeps the chunks of each stream_id in stream_sessions and sends *)
(* one response per message on a channel of StreamChannelCap slots, from   *)
(* which the client takes them.  The data of a message is the list of the  *)
(* numbers of the messages it came from: message n carries <<n>>.          *)
(***************************************************************************)
StreamChannelCap == 4

StreamIds == {"s", "t"}
\* Base64 content goes the way of Text in combine_stream_chunks
ContentKinds == {"Text", "Binary"}

MessageContent(content_type, data) == [content_type |-> content_type, data |-> data]

\* a UnifiedInferRequest with stream_metadata
Chunk(n, stream_id, end_of_stream, kind) ==
    [request_id |-> n, streaming |-> TRUE, stream_id |-> stream_id,
     end_of_stream |-> end_of_stream, protocol |-> "Galemind",
     content |-> MessageContent(kind, <<n>>)]

\* a UnifiedInferRequest without stream_metadata
Single(n) ==
    [request_id |-> n, streaming |-> FALSE, stream_id |-> "",
     end_of_stream |-> FALSE, protocol |-> "Galemind",
     content |-> MessageContent("Text", <<n>>)]

\* the messages the client may send as its n-th
Messages(n) ==
    {Chunk(n, id, e, k) : id \in StreamIds, e \in BOOLEAN, k \in ContentKinds}
    \cup {Single(n)}

\* the loop of combine_stream_chunks: text and base64 data go to
\* combined_text, binary data to combined_binary, and content_type is the
\* kind of the chunk seen last
RECURSIVE combine_loop(_, _)
combine_loop(chunks, acc) ==
    IF chunks = <<>> THEN acc
    ELSE LET c == Head(chunks).content
         IN combine_loop(Tail(chunks),
                IF c.content_type = "Binary"
                THEN [acc EXCEPT !.combined_binary = @ \o c.data,
                                 !.content_type = "Binary"]
                ELSE [acc EXCEPT !.combined_text = @ \o c.data,
                                 !.content_type = c.content_type])

\* a combination that keeps the last chunk only
combine_stream_chunks_last(chunks) == chunks[Len(chunks)].content

combine_stream_chunks(chunks) ==
    LET r == combine_loop(chunks, [combined_text |-> <<>>, combined_binary |-> <<>>,
                                   content_type |-> "Text"])
    IN IF r.content_type = "Binary"
       THEN MessageContent("Binary", r.combined_binary)
       ELSE MessageContent(r.content_type, r.combined_text)

\* the three responses of the loop
StreamCompleted(msg, content) ==
    [kind |-> "Stream completed", request_id |-> msg.request_id,
     stream_id |-> msg.stream_id, end_of_stream |-> TRUE, content |-> content]

ChunkReceived(msg) ==
    [kind |-> "Chunk received", request_id |-> msg.request_id,
     stream_id |-> msg.stream_id, end_of_stream |-> FALSE,
     content |-> MessageContent("Text", <<>>)]

Success(msg) ==
    [kind |-> "Success", request_id |-> msg.request_id,
     stream_id |-> "", end_of_stream |-> FALSE,
     content |-> MessageContent("Text", <<msg.protocol>>)]

\* stream_sessions.entry(stream_id).or_insert_with(Vec::new).push(req)
session_push(sessions, msg) ==
    IF msg.stream_id \in DOMAIN sessions
    THEN [sessions EXCEPT ![msg.stream_id] = Append(@, msg)]
    ELSE (msg.stream_id :> <<msg>>) @@ sessions

\* stream_sessions.remove(&stream_id)
session_remove(sessions, stream_id) ==
    [id \in DOMAIN sessions \ {stream_id} |-> sessions[id]]

\* one iteration of the loop on Ok(req): the sessions after it and the
\* response it sends
handle_message(sessions, msg) ==
    IF msg.streaming
    THEN LET pushed_to == session_push(sessions, msg)
         IN IF msg.end_of_stream
            THEN [sessions |-> session_remove(pushed_to, msg.stream_id),
                  response |-> StreamCompleted(msg,
                                   combine_stream_chunks(pushed_to[msg.stream_id]))]
            ELSE [sessions |-> pushed_to, response |-> ChunkReceived(msg)]
    ELSE [sessions |-> sessions, response |-> Success(msg)]

\* the responses in the channel: sent and not yet taken
InChannel == Len(stream_out) - stream_delivered

\* stream.message() gave Ok(req).  tx.send waits for a free slot of the
\* channel; with the receiver dropped it fails and the task leaves the
\* loop.
StreamMessage(msg) ==
    /\ stream_pc = "open"
    /\ Len(stream_received) < MaxMessages
    /\ stream_rx = "dropped" \/ InChannel < StreamChannelCap
    /\ stream_received' = Append(stream_received, msg)
    /\ stream_sessions' = handle_message(stream_sessions, msg).sessions
    /\ IF stream_rx = "open"
       THEN /\ stream_out' = Append(stream_out,
                                    handle_message(stream_sessions, msg).response)
            /\ UNCHANGED stream_pc
       ELSE /\ stream_pc' = "ended"
            /\ UNCHANGED stream_out
    /\ UNCHANGED <<ring, pushed, sysVars, idVars, discVars, clientVars,
                   stream_delivered, stream_rx>>

\* stream.message() gave None (the client closed the stream) or an error:
\* the task leaves the loop and drops tx and the sessions
StreamEnds ==
    /\ stream_pc = "open"
    /\ stream_pc' = "ended"
    /\ stream_sessions' = <<>>
    /\ UNCHANGED <<ring, pushed, sysVars, idVars, discVars, clientVars,
                   stream_received, stream_out, stream_delivered, stream_rx>>

\* the client takes the next response from the ReceiverStream
ClientReceives ==
    /\ stream_rx = "open"
    /\ InChannel > 0
    /\ stream_delivered' = stream_delivered + 1
    /\ UNCHANGED <<ring, pushed, sysVars, idVars, discVars, clientVars,
                   stream_sessions, stream_received, stream_out, stream_pc,
                   stream_rx>>

\* the client drops the response stream
ClientDrops ==
    /\ stream_rx = "open"
    /\ stream_rx' = "dropped"
    /\ UNCHANGED <<ring, pushed, sysVars, idVars, discVars, clientVars,
                   stream_sessions, stream_received, stream_out,
                   stream_delivered, stream_pc>>

InitStream ==
    /\ InitSys
    /\ IdleClient
    /\ IdleStream
    /\ ring = CircularBuffer_new(1)
    /\ pushed = <<>>
    /\ IdleId
    /\ IdleDisc

NextStream ==
    \/ \E msg \in Messages(Len(stream_received) + 1) : StreamMessage(msg)
    \/ StreamEnds
    \/ ClientReceives
    \/ ClientDrops

SpecStream == InitStream /\ [][NextStream]_vars

\* the elements of a set of numbers in ascending order
RECURSIVE Ascending(_)
Ascending(set) ==
    IF set = {} THEN <<>>
    ELSE LET least == CHOOSE n \in set : \A k \in set : n <= k
         IN <<least>> \o Ascending(set \ {least})

\* the messages before the i-th that ended a stream with the stream_id of
\* the i-th
EndsBefore(i) ==
    {j \in 1..(i - 1) : /\ stream_received[j].streaming
                         /\ stream_received[j].end_of_stream
                         /\ stream_received[j].stream_id = stream_received[i].stream_id}

\* the chunks of the session the i-th message belongs to: those with its
\* stream_id that arrived after the last end of that stream, up to itself
SessionAt(i) ==
    {j \in 1..i : /\ stream_received[j].streaming
                   /\ stream_received[j].stream_id = stream_received[i].stream_id
                   /\ \A e \in EndsBefore(i) : e < j}

\* the chunks of a stream_id that no end of stream has followed
OpenChunks(stream_id) ==
    {j \in DOMAIN stream_received :
        /\ stream_received[j].streaming
        /\ stream_received[j].stream_id = stream_id
        /\ \A e \in j..Len(stream_received) :
              ~(/\ stream_received[e].streaming
                /\ stream_received[e].end_of_stream
                /\ stream_received[e].stream_id = stream_id)}

\* the response to the i-th message carries the data of all chunks of its
\* session, in arrival order
C39_Content(i) == stream_out[i].content.data = Ascending(SessionAt(i))

\* the chunks of the session of the i-th message carry one kind of content
C39_OneKind(i) ==
    \A j \in SessionAt(i) :
        stream_received[j].content.content_type = stream_received[i].content.content_type

\* one response per message, in arrival order, of the kind the message
\* asks for; the sessions hold the chunks no end of stream has followed
C39_Sessions ==
    /\ Len(stream_out) <= Len(stream_received)
    /\ stream_rx = "open" => Len(stream_out) = Len(stream_received)
    /\ \A i \in DOMAIN stream_out :
          LET msg == stream_received[i]
              response == stream_out[i]
          IN /\ response.request_id = msg.request_id
             /\ response.stream_id = msg.stream_id
             /\ response.kind = IF ~msg.streaming THEN "Success"
                                 ELSE IF msg.end_of_stream THEN "Stream completed"
                                 ELSE "Chunk received"
    /\ stream_pc = "open" =>
          \A id \in StreamIds :
              IF OpenChunks(id) = {}
              THEN id \notin DOMAIN stream_sessions
              ELSE /\ id \in DOMAIN stream_sessions
                   /\ stream_sessions[id] =
                          [k \in 1..Cardinality(OpenChunks(id)) |->
                              stream_received[Ascending(OpenChunks(id))[k]]]

\* C39: every message read gets one response, in arrival order; a chunk
\* without end_of_stream is appended to the session of its stream_id and
\* acknowledged; a chunk with end_of_stream gets one response whose content
\* is the data of all chunks of its session in arrival order, and its
\* session is removed, so that a later chunk of the stream_id starts a new
\* one; no chunk of another stream_id is in a session or a response.
C39_StreamSessions ==
    /\ C39_Sessions
    /\ \A i \in DOMAIN stream_out :
          (stream_received[i].streaming /\ stream_received[i].end_of_stream)
          => C39_Content(i)

\* C39, for the streams whose chunks carry one kind of content: the same,
\* with the content of the closing response required only for a session of
\* one kind.
C39_OneKindStreams ==
    /\ C39_Sessions
    /\ \A i \in DOMAIN stream_out :
          (/\ stream_received[i].streaming
           /\ stream_received[i].end_of_stream
           /\ C39_OneKind(i))
          => C39_Content(i)

\* two chunks of s around a chunk of t were combined, the session of s was
\* removed and the next message started a new session of s; the channel
\* is full
C39_Reached ==
    /\ Len(stream_out) = 4
    /\ stream_delivered = 0
    /\ stream_out[3].kind = "Stream completed"
    /\ stream_out[3].content.data = <<1, 3>>
    /\ stream_received[2].stream_id = "t"
    /\ DOMAIN stream_sessions = {"s", "t"}
    /\ Len(stream_sessions["s"]) = 1

====
